---- MODULE Spec2Model ----
(***************************************************************************)
(* Real-time message routing and presence layer of the chat server         *)
(* (backend/socket/socketHandlers.js).  One Socket.IO server process, the  *)
(* in-memory registry userSockets, and a MySQL store reached through       *)
(* awaited db.query calls.  A handler is split at every await: the step    *)
(* that runs up to the await, the step in which the store executes the     *)
(* query (for a write), and the step in which the handler resumes.  The    *)
(* steps of different handlers interleave freely, as the event loop of the *)
(* server allows.                                                          *)
(*                                                                         *)
(* Spec           connections and well-formed send events                  *)
(* SpecValidation connections and malformed send events                    *)
(* SpecPresence   connections accepted or refused by the authentication    *)
(*                middleware, status writes that succeed or fail           *)
(* SpecTyping     connections and typing indicators                        *)
(* SpecMalformed  connections and malformed events of every kind           *)
(* SpecRouting    connections and well-formed events of every kind, no     *)
(*                query fails                                              *)
(* SpecAnswer     connections and direct sends, also while the connection  *)
(*                handler awaits; the store answers (fairness)             *)
(* SpecRead       direct sends beside GET /direct-messages/:userId         *)
(*                (backend/routes/chat.js)                                 *)
(* SpecClient     the browser client: Dashboard, ChatWindow, MessageInput  *)
(*                and socketService (frontend/src)                         *)
(* SpecClientLive the same, a pending timeout expires (fairness)           *)
(***************************************************************************)
EXTENDS Integers, Sequences, FiniteSets, Bags, TLC

\* ---------------------------------------------------------------- bounds
MaxSocks == 2        \* connections the server accepts in one behaviour
MaxReqs  == 2        \* inbound send events received in one behaviour
NumUsers == 2        \* user ids a token can carry
MaxGets  == 1        \* GET /direct-messages requests in one behaviour
MaxCalls == 4        \* calls of onTyping a MessageInput makes in one behaviour

Socks == 1..MaxSocks
Users == 1..NumUsers
None == 0                            \* undefined: absent map entry, missing field
Texts == {"", "hi"}                  \* messageText: empty or not
GroupId == "g"                       \* the one group of the model
NoGroup == ""                        \* a missing groupId

\* the event arrived without a payload object
NoData ==
  [receiverId |-> None, groupId |-> NoGroup, messageText |-> "", present |-> FALSE,
   senderId |-> None]

\* payloads of send_direct_message: { receiverId, messageText }, or no object.
\* A client may add any field to the object it sends: every payload carries
\* a senderId of the client's choosing, here the identity of the receiver.
DirectPayloads ==
  {[receiverId |-> u, groupId |-> NoGroup, messageText |-> t, present |-> TRUE,
    senderId |-> u] :
     u \in Users \cup {None}, t \in Texts} \cup {NoData}

\* payloads of send_group_message: { groupId, messageText }, or no object;
\* the senderId the client adds is the creator of the group
GroupPayloads ==
  {[receiverId |-> None, groupId |-> g, messageText |-> t, present |-> TRUE,
    senderId |-> 1] :
     g \in {GroupId, NoGroup}, t \in Texts} \cup {NoData}

\* The creator of a group is a member of it (routes/chat.js); user 1
\* created the group, any other user may have been added.
MemberSets == {m \in SUBSET Users : 1 \in m}

\* socket.handshake.auth.token: a token signed for user u, a token that
\* jwt.verify rejects (forged or expired, whatever user it names), or none
TokenOf(u) == [present |-> TRUE, valid |-> TRUE, userId |-> u]
BadTokens == {[present |-> TRUE, valid |-> FALSE, userId |-> u] : u \in Users}
NoToken == [present |-> FALSE, valid |-> FALSE, userId |-> None]
Tokens == {TokenOf(u) : u \in Users} \cup BadTokens \cup {NoToken}

\* the chats the client can select: the other user or the group; none is
\* selected when the Dashboard mounts
NoChat == [type |-> "none", id |-> 0]
Chats == {[type |-> "direct", id |-> 2], [type |-> "group", id |-> 1]}

VARIABLES
  phase,          \* position of the connection handler of each socket
  connected,      \* socket.connected: the transport of the socket is open
  sockUser,       \* socket.userId, bound by the authentication middleware
  disc,           \* position of the disconnect handler of each socket
  userSockets,    \* the registry: userId -> socket id
  reqs,           \* inbound send events in arrival order, with handler position
  DirectMessages, \* rows of table DirectMessages, in insertion order
  GroupMessages,  \* rows of table GroupMessages, in insertion order
  GroupMembers,   \* user ids that are members of the group
  emitted,        \* every emit the server has made: a bag of events
  logged,         \* what the catch blocks wrote with console.error
  handshake,      \* socket.handshake.auth.token of each socket
  gets,           \* GET /direct-messages requests, with handler position
  mounted,        \* the Dashboard of the client: "initial", "mounted", "unmounted"
  socketOpen,     \* socketService.socket is not null
  socketConnected,\* socketService.socket is connected to the server
  listeners,      \* the listeners registered on socketService.socket
  selectedChat,   \* Dashboard state selectedChat
  shown,          \* is_online the Dashboard shows for the other user
  message,        \* MessageInput state message
  isTypingNow,    \* MessageInput state isTyping
  timers,         \* timeouts of MessageInput that are set and have not fired
  refLive,        \* typingTimeoutRef.current is one of them
  calls           \* the values MessageInput has passed to onTyping, in order

\* the server and its store
serverVars == <<phase, connected, sockUser, disc, userSockets, reqs,
                DirectMessages, GroupMessages, GroupMembers, emitted, logged,
                handshake>>

\* the browser client
clientVars == <<mounted, socketOpen, socketConnected, listeners, selectedChat,
                shown, message, isTypingNow, timers, refLive, calls>>

vars == <<serverVars, gets, clientVars>>

\* ---------------------------------------------------------------- emits
\* The identity the payload of event ev carries: messageData.senderId,
\* the local senderId of handler r, in the message events; socket.userId in
\* the typing and status events; none in the error event.
PayloadUserId(s, ev, r) ==
  IF ev \in {"receive_direct_message", "receive_group_message", "message_sent"}
    THEN reqs[r].senderId
  ELSE IF ev = "error" THEN None
  ELSE sockUser[s]

\* socket.emit(ev, ...): sent to the socket itself, dropped when it is closed
SocketEmit(s, ev, r, m) ==
  [ev |-> ev, req |-> r, sock |-> s, to |-> s, msg |-> m,
   userId |-> PayloadUserId(s, ev, r),
   rcpt |-> IF connected[s] THEN {s} ELSE {}]

\* io.to(id).emit(ev, ...): sent to the sockets in room id, i.e. to the
\* socket with that id while it is connected
IoToEmit(id, s, ev, r) ==
  [ev |-> ev, req |-> r, sock |-> s, to |-> id, msg |-> "",
   userId |-> PayloadUserId(s, ev, r),
   rcpt |-> IF connected[id] THEN {id} ELSE {}]

\* The broadcasts are emitted one after the other: the position of the next
\* user_status_change among those about user u.
StatusOrdinal(u) ==
  1 + BagCardinality([e \in {x \in BagToSet(emitted) :
                               x.ev = "user_status_change" /\ x.userId = u}
                        |-> emitted[e]])

\* mutant: the status is sent to the handles the registry holds
IoEmitRegistered(s, online) ==
  [ev |-> "user_status_change", req |-> 0, sock |-> s, to |-> None,
   msg |-> IF online THEN "online" ELSE "offline",
   userId |-> sockUser[s], n |-> StatusOrdinal(sockUser[s]),
   rcpt |-> {t \in Socks : connected[t] /\ \E u \in Users : userSockets[u] = t}]

\* io.emit('user_status_change', ...): sent to every connected socket
IoEmit(s, online) ==
  [ev |-> "user_status_change", req |-> 0, sock |-> s, to |-> None,
   msg |-> IF online THEN "online" ELSE "offline",
   userId |-> sockUser[s], n |-> StatusOrdinal(sockUser[s]),
   rcpt |-> {t \in Socks : connected[t]}]

\* the error event of a handler
ErrorEmit(s, r, m) == SocketEmit(s, "error", r, m)

\* the bag of emits after the events of sequence evs have been emitted
RECURSIVE EmitInto(_, _)
EmitInto(bag, evs) ==
  IF evs = << >> THEN bag
  ELSE EmitInto(bag (+) SetToBag({Head(evs)}), Tail(evs))

Emit(evs) == EmitInto(emitted, evs)

\* ---------------------------------------------------------------- state
Init ==
  /\ phase = [s \in Socks |-> "unused"]
  /\ connected = [s \in Socks |-> FALSE]
  /\ sockUser = [s \in Socks |-> None]
  /\ disc = [s \in Socks |-> "none"]
  /\ userSockets = [u \in Users |-> None]
  /\ reqs = << >>
  /\ DirectMessages = << >>
  /\ GroupMessages = << >>
  /\ GroupMembers \in MemberSets
  /\ emitted = EmptyBag
  /\ logged = {}
  /\ handshake = [s \in Socks |-> NoToken]
  /\ gets = << >>
  /\ mounted = "initial"
  /\ socketOpen = FALSE
  /\ socketConnected = FALSE
  /\ listeners = {}
  /\ selectedChat = NoChat
  /\ shown = FALSE
  /\ message = ""
  /\ isTypingNow = FALSE
  /\ timers = 0
  /\ refLive = FALSE
  /\ calls = << >>

\* ------------------------------------------------- the registry
\* userSockets.set(userId, socketId)
Register(u, s) == [userSockets EXCEPT ![u] = s]

\* mutant: the disconnect handler empties the registry
DeregisterClear(s) == [u \in Users |-> None]

\* userSockets.delete(socket.userId)
Deregister(s) == [userSockets EXCEPT ![sockUser[s]] = None]

\* userSockets.get(userId): undefined for a key the map does not hold
Lookup(u) == IF u \in DOMAIN userSockets THEN userSockets[u] ELSE None

\* console.error in the catch block of handler r of socket s (r = 0: the
\* connection or the disconnect handler)
Logged(s, r, what) == [sock |-> s, req |-> r, what |-> what]

\* ------------------------------------------------- connection handler
\* Socket ids are fresh: a new connection gets the next unused id.
NewSocket(s) == phase[s] = "unused" /\ \A t \in Socks : t < s => phase[t] # "unused"

\* mutant: a new connection of a user closes the one registered before
ConnectionForceClose(s, u) ==
  /\ NewSocket(s)
  /\ phase' = [phase EXCEPT ![s] = "connecting"]
  /\ connected' = [t \in Socks |-> t = s \/ (connected[t] /\ t # Lookup(u))]
  /\ sockUser' = [sockUser EXCEPT ![s] = u]
  /\ userSockets' = Register(u, s)
  /\ UNCHANGED <<disc, reqs, DirectMessages, GroupMessages, GroupMembers, emitted,
                 logged,
                 gets, clientVars>>

\* io.on('connection'): the socket passed the middleware with a token of
\* user u; the handler registers it and suspends at the status write.
Connection(s, u) ==
  /\ NewSocket(s)
  /\ phase' = [phase EXCEPT ![s] = "connecting"]
  /\ connected' = [connected EXCEPT ![s] = TRUE]
  /\ sockUser' = [sockUser EXCEPT ![s] = u]
  /\ userSockets' = Register(u, s)
  /\ UNCHANGED <<disc, reqs, DirectMessages, GroupMessages, GroupMembers, emitted,
                 logged,
                 gets, clientVars>>

\* next(new Error(m)): the connection is refused, the client is told why
\* and the 'connection' event is not fired for the socket.
Reject(s, m) ==
  /\ NewSocket(s)
  /\ phase' = [phase EXCEPT ![s] = "rejected"]
  /\ emitted' = Emit(<<[ev |-> "connect_error", req |-> 0, sock |-> s, to |-> s,
                        msg |-> m, userId |-> None, rcpt |-> {}]>>)
  /\ UNCHANGED <<connected, sockUser, disc, userSockets, reqs, DirectMessages,
                 GroupMessages, GroupMembers, logged,
                 gets, clientVars>>

\* mutant: the token is decoded without checking its signature
Decodes(token) == token.present

\* jwt.verify(token, secret) returns the payload of a token signed with the
\* secret and not expired, and throws for any other
Verify(token) == token.present /\ token.valid

\* io.use: the authentication middleware, run for a new socket s whose
\* handshake carries token.
Middleware(s, token) ==
  /\ handshake' = [handshake EXCEPT ![s] = token]
  /\ IF ~token.present THEN Reject(s, "Authentication token required")
     ELSE IF ~Verify(token) THEN Reject(s, "Invalid authentication token")
     ELSE Connection(s, token.userId)

\* mutant: a connecting user is sent the direct messages that found it
\* absent
ConnectionResumeFlush(s) ==
  /\ phase[s] = "connecting"
  /\ phase' = [phase EXCEPT ![s] = "listening"]
  /\ emitted' = Emit(<<IoEmit(s, TRUE)>>) (+)
       SetToBag({IoToEmit(s, reqs[r].sock, "receive_direct_message", r) :
                   r \in {q \in DOMAIN reqs :
                            /\ reqs[q].kind = "direct" /\ reqs[q].pc = "done"
                            /\ reqs[q].err = "" /\ reqs[q].receiverSocketId = None
                            /\ reqs[q].data.receiverId = sockUser[s]}})
  /\ UNCHANGED <<connected, sockUser, disc, userSockets, reqs,
                 DirectMessages, GroupMessages, GroupMembers,
                 logged, handshake,
                 gets, clientVars>>

\* The status write returned without error: broadcast the online status,
\* then register the event handlers of the socket.
ConnectionResume(s) ==
  /\ phase[s] = "connecting"
  /\ phase' = [phase EXCEPT ![s] = "listening"]
  /\ emitted' = Emit(<<IoEmit(s, TRUE)>>)
  /\ UNCHANGED <<connected, sockUser, disc, userSockets, reqs,
                 DirectMessages, GroupMessages, GroupMembers,
                 logged, handshake,
                 gets, clientVars>>

\* mutant: a failed status write ends the connection handler
ConnectionResumeAborted(s) ==
  /\ phase[s] = "connecting"
  /\ phase' = [phase EXCEPT ![s] = "listening"]
  /\ logged' = logged \cup {Logged(s, 0, "online status")}
  /\ UNCHANGED <<connected, sockUser, disc, userSockets, reqs, emitted,
                 DirectMessages, GroupMessages, GroupMembers, handshake,
                 gets, clientVars>>

\* The status write was rejected by the store: the catch block logs the
\* error and the handler goes on as after a successful write.
ConnectionResumeFailed(s) ==
  /\ phase[s] = "connecting"
  /\ phase' = [phase EXCEPT ![s] = "listening"]
  /\ logged' = logged \cup {Logged(s, 0, "online status")}
  /\ emitted' = Emit(<<IoEmit(s, TRUE)>>)
  /\ UNCHANGED <<connected, sockUser, disc, userSockets, reqs,
                 DirectMessages, GroupMessages, GroupMembers, handshake,
                 gets, clientVars>>

\* ------------------------------------------------- disconnect handler
\* The socket closes while its 'disconnect' listener is registered: the
\* handler deletes the registry entry and suspends at the status write.
Disconnect(s) ==
  /\ connected[s] /\ phase[s] = "listening"
  /\ connected' = [connected EXCEPT ![s] = FALSE]
  /\ userSockets' = Deregister(s)
  /\ disc' = [disc EXCEPT ![s] = "await"]
  /\ UNCHANGED <<phase, sockUser, reqs, DirectMessages, GroupMessages,
                 GroupMembers, emitted,
                 logged, handshake,
                 gets, clientVars>>

\* The socket closes while the connection handler still awaits the status
\* write: no 'disconnect' listener is registered yet, the event has no
\* listener and no handler runs, now or later.
DisconnectEarly(s) ==
  /\ connected[s] /\ phase[s] = "connecting"
  /\ connected' = [connected EXCEPT ![s] = FALSE]
  /\ UNCHANGED <<phase, sockUser, disc, userSockets, reqs, DirectMessages,
                 GroupMessages, GroupMembers, emitted,
                 logged, handshake,
                 gets, clientVars>>

\* The offline status write returned without error: broadcast the
\* offline status.
DisconnectResume(s) ==
  /\ disc[s] = "await"
  /\ disc' = [disc EXCEPT ![s] = "done"]
  /\ emitted' = Emit(<<IoEmit(s, FALSE)>>)
  /\ UNCHANGED <<phase, connected, sockUser, userSockets, reqs,
                 DirectMessages, GroupMessages, GroupMembers,
                 logged, handshake,
                 gets, clientVars>>

\* The offline status write was rejected by the store: logged, and the
\* handler goes on as after a successful write.
DisconnectResumeFailed(s) ==
  /\ disc[s] = "await"
  /\ disc' = [disc EXCEPT ![s] = "done"]
  /\ logged' = logged \cup {Logged(s, 0, "offline status")}
  /\ emitted' = Emit(<<IoEmit(s, FALSE)>>)
  /\ UNCHANGED <<phase, connected, sockUser, userSockets, reqs,
                 DirectMessages, GroupMessages, GroupMembers, handshake,
                 gets, clientVars>>

\* ------------------------------------------------- inbound events
\* An inbound event is dispatched to its listener when the socket is open
\* and the connection handler has registered the listeners.  Socket.IO
\* does not wait for an async listener: a suspended handler of the socket
\* does not hold back the next event.
Dispatches(s) == connected[s] /\ phase[s] = "listening" /\ Len(reqs) < MaxReqs

\* mutant: the sender is read from the payload of the event
SenderIdFromPayload(s, data) == data.senderId

\* const senderId = socket.userId
SenderId(s, data) == sockUser[s]

\* A handler instance.  pc is its position, err the path on which it
\* ended in an error branch, senderId and receiverSocketId the locals of
\* those names, regAtSend whether the registry held the receiver when the
\* event arrived.
NewReq(s, kind, data, pc, err) ==
  [sock |-> s, kind |-> kind, data |-> data, pc |-> pc, err |-> err,
   senderId |-> SenderId(s, data),
   receiverSocketId |-> None, regAtSend |-> Lookup(data.receiverId) # None]

SetPc(r, pc) == [reqs EXCEPT ![r].pc = pc]

\* A query of handler r, suspended at pc, is rejected by the store: the
\* catch block of the handler logs, emits the error event and the handler
\* ends.
QueryFails(r, pc) ==
  /\ reqs[r].pc = pc
  /\ reqs' = [reqs EXCEPT ![r].pc = "done", ![r].err = pc]
  /\ emitted' = Emit(<<ErrorEmit(reqs[r].sock, r, "Failed to send message")>>)
  /\ logged' = logged \cup {Logged(reqs[r].sock, r, reqs[r].kind)}
  /\ UNCHANGED <<phase, connected, sockUser, disc, userSockets,
                 DirectMessages, GroupMessages, GroupMembers, handshake,
                 gets, clientVars>>

\* ------------------------------------------------- send_direct_message
\* mutant: the validation forgets the message text
InvalidDirectReceiverOnly(data) == data.receiverId = None

\* if (!receiverId || !messageText)
InvalidDirect(data) == data.receiverId = None \/ data.messageText = ""

\* Start of the handler: destructure (throws on a missing payload, which
\* the catch block reports), validate, issue the INSERT and suspend.
SendDirectMessage(s, data) ==
  /\ Dispatches(s)
  /\ LET r == Len(reqs) + 1 IN
     IF ~data.present
       THEN /\ reqs' = Append(reqs, NewReq(s, "direct", data, "done", "nodata"))
            /\ emitted' = Emit(<<ErrorEmit(s, r, "Failed to send message")>>)
            /\ logged' = logged \cup {Logged(s, r, "direct")}
     ELSE IF InvalidDirect(data)
       THEN /\ reqs' = Append(reqs, NewReq(s, "direct", data, "done", "invalid"))
            /\ emitted' = Emit(<<ErrorEmit(s, r, "Invalid message data")>>)
            /\ UNCHANGED logged
     ELSE /\ reqs' = Append(reqs, NewReq(s, "direct", data, "insert", ""))
          /\ UNCHANGED <<emitted, logged>>
  /\ UNCHANGED <<phase, connected, sockUser, disc, userSockets,
                 DirectMessages, GroupMessages, GroupMembers, handshake,
                 gets, clientVars>>

\* The event arrives while the connection handler still awaits the status
\* write: socket.on('send_direct_message', ...) has not run yet, the event
\* has no listener and is dropped; no handler runs for it, now or later.
SendDirectNoListener(s, data) ==
  /\ connected[s] /\ phase[s] = "connecting" /\ Len(reqs) < MaxReqs
  /\ reqs' = Append(reqs, NewReq(s, "direct", data, "dropped", "nolistener"))
  /\ UNCHANGED <<phase, connected, sockUser, disc, userSockets,
                 DirectMessages, GroupMessages, GroupMembers, emitted,
                 logged, handshake,
                 gets, clientVars>>

\* mutant: the INSERT is executed twice
InsertDirectTwice(r) ==
  /\ reqs[r].kind = "direct" /\ reqs[r].pc = "insert"
  /\ LET row == [req |-> r, sender_id |-> reqs[r].senderId,
                 receiver_id |-> reqs[r].data.receiverId, is_read |-> FALSE]
     IN DirectMessages' = DirectMessages \o <<row, row>>
  /\ reqs' = SetPc(r, "inserted")
  /\ UNCHANGED <<phase, connected, sockUser, disc, userSockets,
                 GroupMessages, GroupMembers, emitted,
                 logged, handshake,
                 gets, clientVars>>

\* The store executes the INSERT INTO DirectMessages of handler r
\* (is_read defaults to FALSE).
InsertDirect(r) ==
  /\ reqs[r].kind = "direct" /\ reqs[r].pc = "insert"
  /\ DirectMessages' = Append(DirectMessages,
        [req |-> r, sender_id |-> reqs[r].senderId,
         receiver_id |-> reqs[r].data.receiverId, is_read |-> FALSE])
  /\ reqs' = SetPc(r, "inserted")
  /\ UNCHANGED <<phase, connected, sockUser, disc, userSockets,
                 GroupMessages, GroupMembers, emitted,
                 logged, handshake,
                 gets, clientVars>>

\* mutant: a handler whose socket has closed emits nothing
DirectFanOutUnlessClosed(r, receiverSocketId) ==
  IF ~connected[reqs[r].sock] THEN << >>
  ELSE (IF receiverSocketId # None
          THEN <<IoToEmit(receiverSocketId, reqs[r].sock, "receive_direct_message", r)>>
          ELSE << >>)
       \o <<SocketEmit(reqs[r].sock, "message_sent", r, "")>>

\* mutant: the confirmation is emitted with io.emit
DirectFanOutConfirmAll(r, receiverSocketId) ==
  (IF receiverSocketId # None
     THEN <<IoToEmit(receiverSocketId, reqs[r].sock, "receive_direct_message", r)>>
     ELSE << >>)
  \o <<[ev |-> "message_sent", req |-> r, sock |-> reqs[r].sock, to |-> None,
        msg |-> "", userId |-> reqs[r].senderId,
        rcpt |-> {t \in Socks : connected[t]}]>>

\* mutant: the message is emitted with io.emit
DirectFanOutBroadcast(r, receiverSocketId) ==
  (IF receiverSocketId # None
     THEN <<[ev |-> "receive_direct_message", req |-> r, sock |-> reqs[r].sock,
             to |-> None, msg |-> "", userId |-> reqs[r].senderId,
             rcpt |-> {t \in Socks : connected[t]}]>>
     ELSE << >>)
  \o <<SocketEmit(reqs[r].sock, "message_sent", r, "")>>

\* mutant: the confirmation is emitted only when the receiver is online
DirectFanOutIfOnline(r, receiverSocketId) ==
  IF receiverSocketId # None
    THEN <<IoToEmit(receiverSocketId, reqs[r].sock, "receive_direct_message", r),
           SocketEmit(reqs[r].sock, "message_sent", r, "")>>
    ELSE << >>

\* The events the handler emits once the INSERT has returned: to the
\* socket registered for the receiver, if any, then to the sender.
DirectFanOut(r, receiverSocketId) ==
  (IF receiverSocketId # None
     THEN <<IoToEmit(receiverSocketId, reqs[r].sock, "receive_direct_message", r)>>
     ELSE << >>)
  \o <<SocketEmit(reqs[r].sock, "message_sent", r, "")>>

\* The handler resumes after a successful INSERT: look the receiver up in
\* the registry and emit.
DirectResume(r) ==
  /\ reqs[r].kind = "direct" /\ reqs[r].pc = "inserted"
  /\ LET receiverSocketId == Lookup(reqs[r].data.receiverId) IN
       /\ emitted' = Emit(DirectFanOut(r, receiverSocketId))
       /\ reqs' = [reqs EXCEPT ![r].pc = "done",
                               ![r].receiverSocketId = receiverSocketId]
  /\ UNCHANGED <<phase, connected, sockUser, disc, userSockets,
                 DirectMessages, GroupMessages, GroupMembers,
                 logged, handshake,
                 gets, clientVars>>

\* mutant: the catch block logs the failure and emits nothing
InsertFailsUnreported(r) ==
  /\ reqs[r].pc = "insert"
  /\ reqs' = [reqs EXCEPT ![r].pc = "done", ![r].err = "insert"]
  /\ logged' = logged \cup {Logged(reqs[r].sock, r, reqs[r].kind)}
  /\ UNCHANGED <<phase, connected, sockUser, disc, userSockets,
                 DirectMessages, GroupMessages, GroupMembers, emitted,
                 handshake,
                 gets, clientVars>>

\* The INSERT of a direct or a group send is rejected by the store.
InsertFails(r) == QueryFails(r, "insert")

\* ------------------------------------------------- send_group_message
\* if (!groupId || !messageText)
InvalidGroup(data) == data.groupId = NoGroup \/ data.messageText = ""

\* Start of the handler: destructure, validate, issue the membership
\* query and suspend.
SendGroupMessage(s, data) ==
  /\ Dispatches(s)
  /\ LET r == Len(reqs) + 1 IN
     IF ~data.present
       THEN /\ reqs' = Append(reqs, NewReq(s, "group", data, "done", "nodata"))
            /\ emitted' = Emit(<<ErrorEmit(s, r, "Failed to send message")>>)
            /\ logged' = logged \cup {Logged(s, r, "group")}
     ELSE IF InvalidGroup(data)
       THEN /\ reqs' = Append(reqs, NewReq(s, "group", data, "done", "invalid"))
            /\ emitted' = Emit(<<ErrorEmit(s, r, "Invalid message data")>>)
            /\ UNCHANGED logged
     ELSE /\ reqs' = Append(reqs, NewReq(s, "group", data, "membership", ""))
          /\ UNCHANGED <<emitted, logged>>
  /\ UNCHANGED <<phase, connected, sockUser, disc, userSockets,
                 DirectMessages, GroupMessages, GroupMembers, handshake,
                 gets, clientVars>>

\* SELECT user_id FROM GroupMembers WHERE group_id = ?
MembersOf(groupId) == IF groupId = GroupId THEN GroupMembers ELSE {}

\* mutant: the membership query leaves out the user id
IsMemberOfAnyUser(groupId, userId) == MembersOf(groupId) # {}

\* SELECT membership_id ... WHERE group_id = ? AND user_id = ? : the
\* result has a row (membership.length > 0)
IsMember(groupId, userId) == userId \in MembersOf(groupId)

\* The membership query returned: a non-member gets the error event and
\* the handler ends; for a member the handler issues the INSERT.
MembershipResume(r) ==
  /\ reqs[r].kind = "group" /\ reqs[r].pc = "membership"
  /\ IF IsMember(reqs[r].data.groupId, reqs[r].senderId)
       THEN /\ reqs' = SetPc(r, "insert")
            /\ UNCHANGED emitted
       ELSE /\ reqs' = [reqs EXCEPT ![r].pc = "done", ![r].err = "notmember"]
            /\ emitted' = Emit(<<ErrorEmit(reqs[r].sock, r,
                                           "You are not a member of this group")>>)
  /\ UNCHANGED <<phase, connected, sockUser, disc, userSockets,
                 DirectMessages, GroupMessages, GroupMembers,
                 logged, handshake,
                 gets, clientVars>>

\* The membership query is rejected by the store.
MembershipFails(r) == QueryFails(r, "membership")

\* The store executes the INSERT INTO GroupMessages of handler r.
InsertGroup(r) ==
  /\ reqs[r].kind = "group" /\ reqs[r].pc = "insert"
  /\ GroupMessages' = Append(GroupMessages,
        [req |-> r, group_id |-> reqs[r].data.groupId,
         sender_id |-> reqs[r].senderId])
  /\ reqs' = SetPc(r, "inserted")
  /\ UNCHANGED <<phase, connected, sockUser, disc, userSockets,
                 DirectMessages, GroupMembers, emitted,
                 logged, handshake,
                 gets, clientVars>>

\* The INSERT returned: the handler builds messageData, issues the query
\* for the members of the group and suspends again.
GroupInserted(r) ==
  /\ reqs[r].kind = "group" /\ reqs[r].pc = "inserted"
  /\ reqs' = SetPc(r, "members")
  /\ UNCHANGED <<phase, connected, sockUser, disc, userSockets,
                 DirectMessages, GroupMessages, GroupMembers, emitted,
                 logged, handshake,
                 gets, clientVars>>

\* mutant: the message goes to the socket of the sender, as message_sent does
GroupFanOutToSender(r, members, u) ==
  <<SocketEmit(reqs[r].sock, "receive_group_message", r, "")>>

\* members.forEach(...): one emit per member that has a registry entry,
\* members taken in the order of their ids from u on
RECURSIVE GroupFanOut(_, _, _)
GroupFanOut(r, members, u) ==
  IF u > NumUsers THEN << >>
  ELSE (IF u \in members /\ Lookup(u) # None
          THEN <<IoToEmit(Lookup(u), reqs[r].sock, "receive_group_message", r)>>
          ELSE << >>)
       \o GroupFanOut(r, members, u + 1)

\* mutant: the sender is sent a message_sent confirmation after the fan-out
GroupResumeWithConfirmation(r) ==
  /\ reqs[r].kind = "group" /\ reqs[r].pc = "members"
  /\ emitted' = Emit(GroupFanOut(r, MembersOf(reqs[r].data.groupId), 1)
                    \o <<SocketEmit(reqs[r].sock, "message_sent", r, "")>>)
  /\ reqs' = SetPc(r, "done")
  /\ UNCHANGED <<phase, connected, sockUser, disc, userSockets,
                 DirectMessages, GroupMessages, GroupMembers,
                 logged, handshake,
                 gets, clientVars>>

\* The members query returned: fan out.
GroupResume(r) ==
  /\ reqs[r].kind = "group" /\ reqs[r].pc = "members"
  /\ emitted' = Emit(GroupFanOut(r, MembersOf(reqs[r].data.groupId), 1))
  /\ reqs' = SetPc(r, "done")
  /\ UNCHANGED <<phase, connected, sockUser, disc, userSockets,
                 DirectMessages, GroupMessages, GroupMembers,
                 logged, handshake,
                 gets, clientVars>>

\* The members query is rejected by the store, after the INSERT.
MembersFails(r) == QueryFails(r, "members")

\* ------------------------------------------------- typing_direct
\* payloads of typing_direct: { receiverId, isTyping }
TypingDirectPayloads ==
  {[receiverId |-> u, groupId |-> NoGroup, messageText |-> "", present |-> TRUE,
    senderId |-> u, isTyping |-> b] : u \in Users \cup {None}, b \in BOOLEAN}

\* a typing event that arrived without a payload object
NoTypingData ==
  [receiverId |-> None, groupId |-> NoGroup, messageText |-> "", present |-> FALSE,
   senderId |-> None, isTyping |-> FALSE]

\* An exception leaves a listener that has no try/catch: nothing catches
\* it on the way up (server.js installs no uncaughtException handler), so
\* the server process ends.  Every socket closes, the registry is gone
\* with the process, and no suspended handler ever resumes.
Uncaught(s, kind, data) ==
  /\ phase' = [t \in Socks |-> "crashed"]
  /\ connected' = [t \in Socks |-> FALSE]
  /\ userSockets' = [u \in Users |-> None]
  /\ disc' = [t \in Socks |-> IF disc[t] = "await" THEN "lost" ELSE disc[t]]
  /\ reqs' = Append([r \in DOMAIN reqs |->
                       IF reqs[r].pc = "done" THEN reqs[r]
                       ELSE [reqs[r] EXCEPT !.pc = "lost"]],
                    NewReq(s, kind, data, "done", "uncaught"))
  /\ UNCHANGED <<sockUser, DirectMessages, GroupMessages, GroupMembers, emitted,
                 logged, handshake,
                 gets, clientVars>>

\* io.to(receiverSocketId).emit('user_typing_direct', {userId, username, isTyping})
TypingEmit(id, s, r, isTyping) ==
  [IoToEmit(id, s, "user_typing_direct", r) EXCEPT
     !.msg = IF isTyping THEN "typing" ELSE "idle"]

\* mutant: an indicator equal to the last one of the socket is not relayed again
TypingDirectDeduplicated(s, data) ==
  /\ Dispatches(s)
  /\ LET r == Len(reqs) + 1
         receiverSocketId == Lookup(data.receiverId)
         repeated == \E q \in DOMAIN reqs :
                       /\ reqs[q].sock = s /\ reqs[q].kind = "typing_direct"
                       /\ reqs[q].data = data
                       /\ \A p \in DOMAIN reqs : p > q => reqs[p].sock # s
     IN /\ reqs' = Append(reqs, [NewReq(s, "typing_direct", data, "done", "")
                                   EXCEPT !.receiverSocketId = receiverSocketId])
        /\ emitted' = IF receiverSocketId # None /\ ~repeated
                        THEN Emit(<<TypingEmit(receiverSocketId, s, r, data.isTyping)>>)
                        ELSE emitted
  /\ UNCHANGED <<phase, connected, sockUser, disc, userSockets,
                 DirectMessages, GroupMessages, GroupMembers, logged, handshake,
                 gets, clientVars>>

\* mutant: the sender is told that the receiver is not connected
TypingDirectReportsAbsent(s, data) ==
  /\ Dispatches(s)
  /\ LET r == Len(reqs) + 1
         receiverSocketId == Lookup(data.receiverId)
     IN /\ reqs' = Append(reqs, [NewReq(s, "typing_direct", data, "done", "")
                                   EXCEPT !.receiverSocketId = receiverSocketId])
        /\ emitted' = IF receiverSocketId # None
                        THEN Emit(<<TypingEmit(receiverSocketId, s, r, data.isTyping)>>)
                        ELSE Emit(<<ErrorEmit(s, r, "User is offline")>>)
  /\ UNCHANGED <<phase, connected, sockUser, disc, userSockets,
                 DirectMessages, GroupMessages, GroupMembers, logged, handshake,
                 gets, clientVars>>

\* The typing_direct handler, which has no await and no try/catch:
\* destructure (throws on a missing payload), look the receiver up and
\* relay the indicator to its socket if the registry holds one.
TypingDirect(s, data) ==
  /\ Dispatches(s)
  /\ IF ~data.present
       THEN Uncaught(s, "typing_direct", data)
       ELSE /\ LET r == Len(reqs) + 1
                   receiverSocketId == Lookup(data.receiverId)
               IN /\ reqs' = Append(reqs,
                                [NewReq(s, "typing_direct", data, "done", "")
                                   EXCEPT !.receiverSocketId = receiverSocketId])
                  /\ emitted' = IF receiverSocketId # None
                                  THEN Emit(<<TypingEmit(receiverSocketId, s, r,
                                                         data.isTyping)>>)
                                  ELSE emitted
            /\ UNCHANGED <<phase, connected, sockUser, disc, userSockets,
                           DirectMessages, GroupMessages, GroupMembers, logged,
                           handshake,
                 gets, clientVars>>

\* ------------------------------------------------- typing_group
\* payloads of typing_group: { groupId, isTyping }
TypingGroupPayloads ==
  {[receiverId |-> None, groupId |-> g, messageText |-> "", present |-> TRUE,
    senderId |-> 1, isTyping |-> b] : g \in {GroupId, NoGroup}, b \in BOOLEAN}

\* Start of the handler: destructure (a missing payload throws into the
\* catch block, which only logs), issue the members query and suspend.
TypingGroup(s, data) ==
  /\ Dispatches(s)
  /\ LET r == Len(reqs) + 1 IN
     IF ~data.present
       THEN /\ reqs' = Append(reqs, NewReq(s, "typing_group", data, "done", "nodata"))
            /\ logged' = logged \cup {Logged(s, r, "typing_group")}
       ELSE /\ reqs' = Append(reqs, NewReq(s, "typing_group", data, "typing_members", ""))
            /\ UNCHANGED logged
  /\ UNCHANGED <<phase, connected, sockUser, disc, userSockets, DirectMessages,
                 GroupMessages, GroupMembers, emitted, handshake,
                 gets, clientVars>>

\* mutant: the query lists every member of the group
TypingMembersWithSender(groupId, userId) == MembersOf(groupId)

\* SELECT user_id FROM GroupMembers WHERE group_id = ? AND user_id != ?
TypingMembersOf(groupId, userId) == MembersOf(groupId) \ {userId}

\* io.to(memberSocketId).emit('user_typing_group', {groupId, userId, username, isTyping})
TypingGroupEmit(id, s, r, isTyping) ==
  [IoToEmit(id, s, "user_typing_group", r) EXCEPT
     !.msg = IF isTyping THEN "typing" ELSE "idle"]

\* members.forEach(...): one emit per listed member that has a registry
\* entry, members taken in the order of their ids from u on
RECURSIVE TypingGroupFanOut(_, _, _)
TypingGroupFanOut(r, members, u) ==
  IF u > NumUsers THEN << >>
  ELSE (IF u \in members /\ Lookup(u) # None
          THEN <<TypingGroupEmit(Lookup(u), reqs[r].sock, r, reqs[r].data.isTyping)>>
          ELSE << >>)
       \o TypingGroupFanOut(r, members, u + 1)

\* The members query returned: relay the indicator.
TypingGroupResume(r) ==
  /\ reqs[r].kind = "typing_group" /\ reqs[r].pc = "typing_members"
  /\ emitted' = Emit(TypingGroupFanOut(r,
                   TypingMembersOf(reqs[r].data.groupId, sockUser[reqs[r].sock]), 1))
  /\ reqs' = SetPc(r, "done")
  /\ UNCHANGED <<phase, connected, sockUser, disc, userSockets,
                 DirectMessages, GroupMessages, GroupMembers,
                 logged, handshake,
                 gets, clientVars>>

\* mutant: the catch block reports the failure to the sender
TypingGroupFailsReported(r) ==
  /\ reqs[r].kind = "typing_group"
  /\ QueryFails(r, "typing_members")

\* The members query is rejected by the store: the catch block logs the
\* error and the handler ends.
TypingGroupFails(r) ==
  /\ reqs[r].kind = "typing_group" /\ reqs[r].pc = "typing_members"
  /\ reqs' = [reqs EXCEPT ![r].pc = "done", ![r].err = "typing_members"]
  /\ logged' = logged \cup {Logged(reqs[r].sock, r, "typing_group")}
  /\ UNCHANGED <<phase, connected, sockUser, disc, userSockets, DirectMessages,
                 GroupMessages, GroupMembers, emitted, handshake,
                 gets, clientVars>>

\* ------------------------------------------------- specifications
Reqs == 1..Len(reqs)

\* the well-formed payloads: an object with the target and a text
ValidDirect == {d \in DirectPayloads :
                  d.present /\ d.receiverId \in Users /\ d.messageText # ""}
ValidGroup == {d \in GroupPayloads :
                 d.present /\ d.groupId # NoGroup /\ d.messageText # ""}

\* connections come and go: clients present tokens the server signed and
\* the store accepts the status writes
Lifecycle ==
  \/ \E s \in Socks, u \in Users : Middleware(s, TokenOf(u))
  \/ \E s \in Socks : ConnectionResume(s)
  \/ \E s \in Socks : Disconnect(s)
  \/ \E s \in Socks : DisconnectEarly(s)
  \/ \E s \in Socks : DisconnectResume(s)

\* the steps of the send handlers past their validation
HandlerSteps ==
  \/ \E r \in Reqs : InsertDirect(r)
  \/ \E r \in Reqs : DirectResume(r)
  \/ \E r \in Reqs : InsertFails(r)
  \/ \E r \in Reqs : MembershipResume(r)
  \/ \E r \in Reqs : MembershipFails(r)
  \/ \E r \in Reqs : InsertGroup(r)
  \/ \E r \in Reqs : GroupInserted(r)
  \/ \E r \in Reqs : GroupResume(r)
  \/ \E r \in Reqs : MembersFails(r)

\* clients send well-formed events
Next ==
  \/ Lifecycle
  \/ \E s \in Socks, data \in ValidDirect : SendDirectMessage(s, data)
  \/ \E s \in Socks, data \in ValidGroup : SendGroupMessage(s, data)
  \/ HandlerSteps

Spec == Init /\ [][Next]_vars

\* clients send malformed events
NextValidation ==
  \/ Lifecycle
  \/ \E s \in Socks, data \in DirectPayloads \ ValidDirect : SendDirectMessage(s, data)
  \/ \E s \in Socks, data \in GroupPayloads \ ValidGroup : SendGroupMessage(s, data)

SpecValidation == Init /\ [][NextValidation]_vars

\* clients send events that make a handler fail at once: no payload
\* object, or a payload the validation rejects
NextMalformed ==
  \/ NextValidation
  \/ \E s \in Socks : TypingDirect(s, NoTypingData)
  \/ \E s \in Socks : TypingGroup(s, NoTypingData)

SpecMalformed == Init /\ [][NextMalformed]_vars

\* clients send well-formed events of every kind and the store answers
\* every query
NextRouting ==
  \/ Lifecycle
  \/ \E s \in Socks, data \in ValidDirect : SendDirectMessage(s, data)
  \/ \E s \in Socks, data \in ValidGroup : SendGroupMessage(s, data)
  \/ \E s \in Socks, data \in TypingDirectPayloads : TypingDirect(s, data)
  \/ \E s \in Socks, data \in TypingGroupPayloads : TypingGroup(s, data)
  \/ \E r \in Reqs : InsertDirect(r)
  \/ \E r \in Reqs : DirectResume(r)
  \/ \E r \in Reqs : MembershipResume(r)
  \/ \E r \in Reqs : InsertGroup(r)
  \/ \E r \in Reqs : GroupInserted(r)
  \/ \E r \in Reqs : GroupResume(r)
  \/ \E r \in Reqs : TypingGroupResume(r)

SpecRouting == Init /\ [][NextRouting]_vars

\* connections with any token, status writes that succeed or fail
NextPresence ==
  \/ \E s \in Socks, token \in Tokens : Middleware(s, token)
  \/ \E s \in Socks : ConnectionResume(s)
  \/ \E s \in Socks : ConnectionResumeFailed(s)
  \/ \E s \in Socks : Disconnect(s)
  \/ \E s \in Socks : DisconnectEarly(s)
  \/ \E s \in Socks : DisconnectResume(s)
  \/ \E s \in Socks : DisconnectResumeFailed(s)

SpecPresence == Init /\ [][NextPresence]_vars

\* clients send typing indicators
NextTyping ==
  \/ Lifecycle
  \/ \E s \in Socks, data \in TypingDirectPayloads : TypingDirect(s, data)
  \/ \E s \in Socks, data \in TypingGroupPayloads : TypingGroup(s, data)
  \/ \E r \in Reqs : TypingGroupResume(r)
  \/ \E r \in Reqs : TypingGroupFails(r)

SpecTyping == Init /\ [][NextTyping]_vars

\* clients send well-formed direct messages as soon as their socket is
\* open; the store answers every query, with a result or an error, and
\* every handler that can resume does
NextAnswer ==
  \/ Lifecycle
  \/ \E s \in Socks, data \in ValidDirect : SendDirectMessage(s, data)
  \/ \E s \in Socks, data \in ValidDirect : SendDirectNoListener(s, data)
  \/ \E r \in Reqs : InsertDirect(r)
  \/ \E r \in Reqs : DirectResume(r)
  \/ \E r \in Reqs : InsertFails(r)

FairAnswer ==
  /\ \A s \in Socks : WF_vars(ConnectionResume(s))
  /\ \A s \in Socks : WF_vars(DisconnectResume(s))
  /\ \A r \in 1..MaxReqs : WF_vars(r \in Reqs /\ (InsertDirect(r) \/ InsertFails(r)))
  /\ \A r \in 1..MaxReqs : WF_vars(r \in Reqs /\ DirectResume(r))

SpecAnswer == Init /\ [][NextAnswer]_vars /\ FairAnswer

\* ------------------------------------------------- GET /direct-messages/:userId
\* req.query.limit: absent, or a number
LimitParams == {None, 1, 2}

\* parseInt(req.query.limit) || 50
LimitOf(q) == IF q = None THEN 50 ELSE q

\* the rows between the two users, in either direction
Between(a, b) ==
  {i \in DOMAIN DirectMessages :
     \/ DirectMessages[i].sender_id = a /\ DirectMessages[i].receiver_id = b
     \/ DirectMessages[i].sender_id = b /\ DirectMessages[i].receiver_id = a}

\* ORDER BY sent_at DESC LIMIT n: the n newest rows of S (sent_at grows with
\* the order of insertion)
Newest(S, n) == {i \in S : Cardinality({j \in S : j > i}) < n}

\* the rows the UPDATE matches:
\* WHERE receiver_id = ? AND sender_id = ? AND is_read = FALSE
Unread(receiver, sender) ==
  {i \in DOMAIN DirectMessages :
     /\ DirectMessages[i].receiver_id = receiver
     /\ DirectMessages[i].sender_id = sender
     /\ ~DirectMessages[i].is_read}

Gets == 1..Len(gets)

\* The authenticated user currentUserId requests the history with
\* otherUserId: the handler issues the SELECT and suspends.
GetDirectMessages(currentUserId, otherUserId, q) ==
  /\ Len(gets) < MaxGets
  /\ gets' = Append(gets, [currentUserId |-> currentUserId,
                           otherUserId |-> otherUserId, limit |-> LimitOf(q),
                           pc |-> "select", status |-> 0,
                           messages |-> {}, marked |-> {}])
  /\ UNCHANGED <<serverVars, clientVars>>

\* The store executes the SELECT of request g; the handler issues the
\* UPDATE and suspends again.
SelectMessages(g) ==
  /\ gets[g].pc = "select"
  /\ gets' = [gets EXCEPT
       ![g].messages = Newest(Between(gets[g].currentUserId, gets[g].otherUserId),
                              gets[g].limit),
       ![g].pc = "update"]
  /\ UNCHANGED <<serverVars, clientVars>>

\* The store executes the UPDATE of request g and the handler answers with
\* the rows the SELECT returned.
MarkRead(g) ==
  /\ gets[g].pc = "update"
  /\ LET rows == Unread(gets[g].currentUserId, gets[g].otherUserId) IN
       /\ DirectMessages' = [i \in DOMAIN DirectMessages |->
            IF i \in rows THEN [DirectMessages[i] EXCEPT !.is_read = TRUE]
                          ELSE DirectMessages[i]]
       /\ gets' = [gets EXCEPT ![g].marked = rows, ![g].pc = "done",
                               ![g].status = 200]
  /\ UNCHANGED <<phase, connected, sockUser, disc, userSockets, reqs,
                 GroupMessages, GroupMembers, emitted, logged, handshake,
                 clientVars>>

\* A query of request g is rejected by the store: the catch block answers
\* with status 500.
GetFails(g) ==
  /\ gets[g].pc \in {"select", "update"}
  /\ gets' = [gets EXCEPT ![g].pc = "done", ![g].status = 500]
  /\ UNCHANGED <<serverVars, clientVars>>

\* users connect and send direct messages, nothing fails in the socket
\* server; meanwhile a user reads a conversation over the REST route
NextRead ==
  \/ \E s \in Socks, u \in Users : Middleware(s, TokenOf(u))
  \/ \E s \in Socks : ConnectionResume(s)
  \/ \E s \in Socks, data \in ValidDirect : SendDirectMessage(s, data)
  \/ \E r \in Reqs : InsertDirect(r)
  \/ \E r \in Reqs : DirectResume(r)
  \/ \E u \in Users : \E o \in Users \ {u}, q \in LimitParams :
       GetDirectMessages(u, o, q)
  \/ \E g \in Gets : SelectMessages(g)
  \/ \E g \in Gets : MarkRead(g)
  \/ \E g \in Gets : GetFails(g)

SpecRead == Init /\ [][NextRead]_vars

\* ------------------------------------------------- browser client
\* One browser: the Dashboard, the ChatWindow it renders for the selected
\* chat with its MessageInput, and the socketService singleton they share.

\* a listener on socketService.socket: the event and the component whose
\* callback it is
Listener(ev, owner) == [ev |-> ev, owner |-> owner]

\* socketService.connect(token): the listeners the service registers itself
ServiceListeners ==
  {Listener(ev, "SocketService") : ev \in {"connect", "disconnect", "connect_error"}}

\* socketService.onUserStatusChange(callback) of the Dashboard
StatusListener == Listener("user_status_change", "Dashboard")

\* the effect of the ChatWindow: onDirectMessage and onTypingDirect, or
\* onGroupMessage and onTypingGroup, then onMessageSent
ChatWindowListeners(chat) ==
  {Listener(ev, "ChatWindow") :
     ev \in (IF chat.type = "direct"
               THEN {"receive_direct_message", "user_typing_direct"}
               ELSE {"receive_group_message", "user_typing_group"})
            \cup {"message_sent"}}

\* socketService.removeAllListeners(): this.socket.removeAllListeners(),
\* which takes every listener of every event off the socket
RemoveAllListeners(ls) == {}

\* The Dashboard mounts: its effect connects the service, which creates the
\* socket, and registers the status listener.
DashboardMount ==
  /\ mounted = "initial"
  /\ mounted' = "mounted"
  /\ socketOpen' = TRUE
  /\ listeners' = ServiceListeners \cup {StatusListener}
  /\ UNCHANGED <<socketConnected, selectedChat, shown, message, isTypingNow,
                 timers, refLive, calls, serverVars, gets>>

\* the transport of the socket connects, or reconnects
SocketConnect ==
  /\ socketOpen /\ ~socketConnected
  /\ socketConnected' = TRUE
  /\ UNCHANGED <<mounted, socketOpen, listeners, selectedChat, shown, message,
                 isTypingNow, timers, refLive, calls, serverVars, gets>>

\* the transport of the socket is lost
SocketDisconnect ==
  /\ socketOpen /\ socketConnected
  /\ socketConnected' = FALSE
  /\ UNCHANGED <<mounted, socketOpen, listeners, selectedChat, shown, message,
                 isTypingNow, timers, refLive, calls, serverVars, gets>>

\* handleSelectUser / handleSelectGroup: setSelectedChat.  The effect of
\* the ChatWindow depends on [chat.id, chat.type]: when they change, the
\* cleanup of the previous run removes all listeners and the effect
\* registers those of the new chat; the first selection mounts the
\* ChatWindow and only registers.
HandleSelect(chat) ==
  /\ mounted = "mounted"
  /\ selectedChat' = chat
  /\ listeners' =
       IF chat = selectedChat THEN listeners
       ELSE (IF selectedChat # NoChat THEN RemoveAllListeners(listeners)
                                      ELSE listeners)
            \cup (IF socketOpen THEN ChatWindowListeners(chat) ELSE {})
  /\ UNCHANGED <<mounted, socketOpen, socketConnected, shown, message,
                 isTypingNow, timers, refLive, calls, serverVars, gets>>

\* handleLogout: socketService.disconnect() drops the socket, then the
\* Dashboard unmounts and its components with it.  A timeout the
\* MessageInput has set is not cleared.
HandleLogout ==
  /\ mounted = "mounted"
  /\ mounted' = "unmounted"
  /\ socketOpen' = FALSE
  /\ socketConnected' = FALSE
  /\ listeners' = {}
  /\ selectedChat' = NoChat
  /\ message' = ""
  /\ isTypingNow' = FALSE
  /\ refLive' = FALSE
  /\ UNCHANGED <<shown, timers, calls, serverVars, gets>>

\* A user_status_change about the other user arrives on the socket: the
\* callback of the Dashboard, if it is registered, updates the user list.
StatusChange(isOnline) ==
  /\ socketOpen /\ socketConnected
  /\ shown # isOnline
  /\ shown' = IF StatusListener \in listeners THEN isOnline ELSE shown
  /\ UNCHANGED <<mounted, socketOpen, socketConnected, listeners, selectedChat,
                 message, isTypingNow, timers, refLive, calls, serverVars, gets>>

\* ------------------------------------------------- MessageInput
\* the values of the input field: empty, white space only, text
Values == {"", " ", "a"}

\* value.trim()
Trim(value) == IF value = " " THEN "" ELSE value

\* clearTimeout(typingTimeoutRef.current): cancels that timeout if it is
\* still pending
ClearTimeout == IF refLive THEN timers - 1 ELSE timers

\* handleInputChange: setMessage; onTyping(true) when the value has text
\* and isTyping is false; the previous timeout is cleared and a new one is
\* set, whatever the value.
HandleInputChange(value) ==
  /\ mounted = "mounted" /\ selectedChat # NoChat
  /\ ~(value = "" /\ message = "")
  /\ Len(calls) < MaxCalls - 1
  /\ message' = value
  /\ IF Trim(value) # "" /\ ~isTypingNow
       THEN /\ isTypingNow' = TRUE
            /\ calls' = Append(calls, TRUE)
       ELSE UNCHANGED <<isTypingNow, calls>>
  /\ timers' = ClearTimeout + 1
  /\ refLive' = TRUE
  /\ UNCHANGED <<mounted, socketOpen, socketConnected, listeners, selectedChat,
                 shown, serverVars, gets>>

\* mutant: the submit clears the timeout and leaves the typing indicator on
HandleSubmitKeepsTyping ==
  /\ mounted = "mounted" /\ selectedChat # NoChat
  /\ Trim(message) # ""
  /\ message' = ""
  /\ timers' = ClearTimeout
  /\ refLive' = FALSE
  /\ UNCHANGED <<mounted, socketOpen, socketConnected, listeners, selectedChat,
                 shown, isTypingNow, calls, serverVars, gets>>

\* handleSubmit: nothing for a message without text; else the message is
\* sent, the input cleared, onTyping(false) called when isTyping is true,
\* and the timeout cleared.
HandleSubmit ==
  /\ mounted = "mounted" /\ selectedChat # NoChat
  /\ Trim(message) # ""
  /\ message' = ""
  /\ IF isTypingNow
       THEN /\ isTypingNow' = FALSE
            /\ calls' = Append(calls, FALSE)
       ELSE UNCHANGED <<isTypingNow, calls>>
  /\ timers' = ClearTimeout
  /\ refLive' = FALSE
  /\ UNCHANGED <<mounted, socketOpen, socketConnected, listeners, selectedChat,
                 shown, serverVars, gets>>

\* A timeout expires, the one in typingTimeoutRef or another one that is
\* pending: setIsTyping(false) and onTyping(false).
TimerFires ==
  /\ timers > 0
  /\ timers' = timers - 1
  /\ \E isRef \in BOOLEAN :
       /\ isRef => refLive
       /\ ~isRef => timers > (IF refLive THEN 1 ELSE 0)
       /\ refLive' = IF isRef THEN FALSE ELSE refLive
  /\ isTypingNow' = FALSE
  /\ calls' = Append(calls, FALSE)
  /\ UNCHANGED <<mounted, socketOpen, socketConnected, listeners, selectedChat,
                 shown, message, serverVars, gets>>

\* the user of the browser selects chats, types and submits; the socket
\* connects and reconnects; status changes arrive
NextClient ==
  \/ DashboardMount
  \/ SocketConnect
  \/ SocketDisconnect
  \/ \E chat \in Chats : HandleSelect(chat)
  \/ HandleLogout
  \/ \E isOnline \in BOOLEAN : StatusChange(isOnline)
  \/ \E value \in Values : HandleInputChange(value)
  \/ HandleSubmit
  \/ TimerFires

SpecClient == Init /\ [][NextClient]_vars

\* a timeout that is pending expires after its delay
FairClient == WF_vars(TimerFires)

SpecClientLive == Init /\ [][NextClient]_vars /\ FairClient

\* ------------------------------------------------- observations
Emits == BagToSet(emitted)

\* the emits of event ev made by handler r
EmitsOf(r, ev) == {e \in Emits : e.req = r /\ e.ev = ev}

\* how many times handler r has emitted event ev
Count(r, ev) == BagCardinality([e \in EmitsOf(r, ev) |-> emitted[e]])

DirectRows(r) == {i \in DOMAIN DirectMessages : DirectMessages[i].req = r}
GroupRows(r) == {i \in DOMAIN GroupMessages : GroupMessages[i].req = r}

DirectSends == {r \in Reqs : reqs[r].kind = "direct" /\ reqs[r].data \in ValidDirect}
GroupSends == {r \in Reqs : reqs[r].kind = "group" /\ reqs[r].data \in ValidGroup}

\* handler r has ended on its success path
Succeeded(r) == reqs[r].pc = "done" /\ reqs[r].err = ""

\* handler r has emitted a delivery event of its message
FannedOut(r) ==
  Count(r, "receive_direct_message") + Count(r, "message_sent")
    + Count(r, "receive_group_message") > 0

\* how many times the offline status of socket s was broadcast
OfflineCount(s) ==
  BagCardinality([e \in {x \in Emits : x.ev = "user_status_change" /\ x.sock = s
                                        /\ x.msg = "offline"} |-> emitted[e]])

\* ------------------------------------------------- claims

\* C1: every valid send_direct_message is inserted into DirectMessages
\* exactly once, and the insert has completed before any
\* receive_direct_message or message_sent of that message is emitted, in
\* every interleaving of concurrent sends: a handler has no row while its
\* INSERT is outstanding or was rejected, exactly one row afterwards, and
\* it has emitted only after it got its row.
C1_PersistOnceBeforeDeliver ==
  \A r \in DirectSends :
    /\ Cardinality(DirectRows(r)) =
         IF reqs[r].pc = "insert" \/ reqs[r].err = "insert" THEN 0 ELSE 1
    /\ FannedOut(r) => Cardinality(DirectRows(r)) = 1 /\ Succeeded(r)
    /\ Succeeded(r) => FannedOut(r)

\* Two sends were in progress together: one is delivered, the other
\* persisted and not yet delivered.
C1_Witness ==
  \E r1, r2 \in DirectSends :
    /\ r1 # r2
    /\ Succeeded(r1) /\ Count(r1, "receive_direct_message") = 1
    /\ Count(r1, "message_sent") = 1
    /\ reqs[r2].pc = "inserted"

\* C2 (as stated): for a persisted direct send the receiver gets exactly
\* one receive_direct_message if it was registered at send time, i.e.
\* when the send event arrived, and none if it was not; the sender gets
\* exactly one message_sent.
C2_RegisteredAtSendTime ==
  \A r \in DirectSends :
    Succeeded(r) =>
      /\ Count(r, "receive_direct_message") = IF reqs[r].regAtSend THEN 1 ELSE 0
      /\ Count(r, "message_sent") = 1

\* the emits of a direct send: nothing before the lookup, then one
\* receive_direct_message to the handle the lookup returned, if it
\* returned one, and one message_sent to the sender's socket
C2_Delivery ==
  \A r \in DirectSends :
    /\ Succeeded(r) =>
         /\ Count(r, "receive_direct_message") =
              IF reqs[r].receiverSocketId # None THEN 1 ELSE 0
         /\ \A e \in EmitsOf(r, "receive_direct_message") :
              e.to = reqs[r].receiverSocketId
         /\ Count(r, "message_sent") = 1
         /\ \A e \in EmitsOf(r, "message_sent") : e.to = reqs[r].sock
    /\ ~Succeeded(r) => ~FannedOut(r)

\* the lookup of the handler reads the registry as it is when it resumes
C2_LookupAtResume ==
  \A r \in DirectSends :
    reqs[r].pc = "inserted" /\ reqs'[r].pc = "done" =>
      reqs'[r].receiverSocketId = Lookup(reqs[r].data.receiverId)

\* C2 (amended): for a persisted direct send, exactly one
\* receive_direct_message is emitted, to the handle the registry holds for
\* the receiver when the handler looks it up after the insert has
\* returned, and none if the registry holds no entry then; in both cases
\* exactly one message_sent is emitted, to the sender's socket.
C2_RegisteredAtLookup == []C2_Delivery /\ [][C2_LookupAtResume]_vars

\* One send found its receiver registered and delivered to it, another
\* found no entry and only confirmed to the sender.
C2_Witness ==
  \E r1, r2 \in DirectSends :
    /\ Succeeded(r1) /\ reqs[r1].receiverSocketId # None
    /\ Count(r1, "receive_direct_message") = 1 /\ Count(r1, "message_sent") = 1
    /\ Succeeded(r2) /\ reqs[r2].receiverSocketId = None
    /\ Count(r2, "receive_direct_message") = 0 /\ Count(r2, "message_sent") = 1

\* C3: a disconnect of a connection that is not the one currently mapped
\* for its user leaves the registry as it is (superseding-entry
\* protection): after A registers on c1 and then on c2, the disconnect of
\* c1 does not remove A, lookup(A) is still c2.
C3_SupersedingProtection ==
  [][\A s \in Socks :
       connected[s] /\ ~connected'[s] /\ Lookup(sockUser[s]) # s
         => userSockets' = userSockets]_vars

\* C4: the disconnect step (deregister, then the offline broadcast) runs
\* exactly once for every registered connection, whenever the disconnect
\* happens: a closed connection has started its disconnect step, and its
\* offline status is broadcast once when the step has ended and not
\* before.
C4_DisconnectStepOnce ==
  \A s \in Socks :
    /\ phase[s] # "unused" /\ ~connected[s] => disc[s] # "none"
    /\ OfflineCount(s) = IF disc[s] = "done" THEN 1 ELSE 0

\* C5: no user id in the registry maps to a socket that is disconnected.
C5_NoStaleHandle ==
  \A u \in Users : Lookup(u) # None => connected[Lookup(u)]

\* C6: two sends of one connection are persisted and fanned out in the
\* order in which their events arrived: the later one is persisted only
\* when the earlier one no longer waits for its insert, and fans out only
\* when the earlier one has ended.
C6_PerConnectionOrder ==
  \A r1, r2 \in DirectSends \cup GroupSends :
    r1 < r2 /\ reqs[r1].sock = reqs[r2].sock =>
      /\ DirectRows(r2) \cup GroupRows(r2) # {}
           => reqs[r1].pc \notin {"membership", "insert"}
      /\ FannedOut(r2) => reqs[r1].pc = "done"

\* C7: at no time are two inbound-event handlers of one connection in
\* progress together.
C7_PerConnectionSerial ==
  \A r1, r2 \in Reqs :
    r1 # r2 /\ reqs[r1].sock = reqs[r2].sock
      => reqs[r1].pc = "done" \/ reqs[r2].pc = "done"

\* the sender of group send r is not a member of the group
NonMember(r) == sockUser[reqs[r].sock] \notin MembersOf(reqs[r].data.groupId)

\* C8: a send_group_message of a non-member inserts no row into
\* GroupMessages, emits no receive_group_message to anyone, and emits an
\* error event to the sender's connection only: one when the handler has
\* ended, none before.
C8_NonMemberRejected ==
  \A r \in GroupSends :
    NonMember(r) =>
      /\ GroupRows(r) = {}
      /\ reqs[r].pc \in {"membership", "done"}
      /\ ~FannedOut(r)
      /\ \A e \in EmitsOf(r, "error") : e.to = reqs[r].sock
      /\ Count(r, "error") = IF reqs[r].pc = "done" THEN 1 ELSE 0

\* A non-member's group send was answered with the membership error while
\* a member of the group is registered.
C8_Witness ==
  \E r \in GroupSends :
    /\ NonMember(r) /\ reqs[r].err = "notmember"
    /\ \E e \in EmitsOf(r, "error") : e.msg = "You are not a member of this group"
    /\ \E u \in GroupMembers : Lookup(u) # None

\* C9: when the store rejects the insert of a direct or a group send, no
\* receive_direct_message, message_sent or receive_group_message is
\* emitted for that send, the sender's connection gets exactly one error
\* event, and no row exists.
C9_InsertFailureNoFanOut ==
  \A r \in DirectSends \cup GroupSends :
    reqs[r].err = "insert" =>
      /\ ~FannedOut(r)
      /\ Count(r, "error") = 1
      /\ \A e \in EmitsOf(r, "error") : e.to = reqs[r].sock
      /\ DirectRows(r) \cup GroupRows(r) = {}

\* The insert of a direct send and the insert of a group send both failed.
C9_Witness ==
  \E r1 \in DirectSends, r2 \in GroupSends :
    /\ reqs[r1].err = "insert" /\ reqs[r2].err = "insert"
    /\ Count(r1, "error") = 1 /\ Count(r2, "error") = 1

\* the payload of event r fails the validation of its handler
MalformedEvent(q) ==
  \/ q.kind = "direct" /\ q.data \notin ValidDirect
  \/ q.kind = "group" /\ q.data \notin ValidGroup

Malformed(r) == MalformedEvent(reqs[r])

\* a malformed event is answered by one error event to its own socket and
\* by nothing else, and no query was issued for it
C10_Rejected ==
  \A r \in Reqs :
    Malformed(r) =>
      /\ reqs[r].pc = "done" /\ reqs[r].err \in {"invalid", "nodata"}
      /\ DirectRows(r) \cup GroupRows(r) = {}
      /\ \A e \in Emits : e.req = r => e.ev = "error" /\ e.to = reqs[r].sock
      /\ Count(r, "error") = 1

\* the step that handles a malformed event issues no store call, changes
\* no table and leaves every connection open
C10_StaysOpen ==
  Len(reqs') > Len(reqs) /\ MalformedEvent(reqs'[Len(reqs')]) =>
    /\ connected' = connected
    /\ DirectMessages' = DirectMessages /\ GroupMessages' = GroupMessages
    /\ userSockets' = userSockets

\* C10: a send_direct_message with a missing receiverId or an empty
\* messageText, and a send_group_message with a missing groupId or an
\* empty messageText, causes no store call and no fan-out; exactly one
\* error event is emitted, to the sending connection only, and the
\* connection stays open.
C10_MalformedSend == []C10_Rejected /\ [][C10_StaysOpen]_vars

\* A direct send without receiverId and a group send with an empty text
\* were both answered with the validation error, on a socket that is
\* still open.
C10_Witness ==
  \E r1, r2 \in Reqs :
    /\ reqs[r1].kind = "direct" /\ reqs[r1].data.present
    /\ reqs[r1].data.receiverId = None /\ reqs[r1].data.messageText = "hi"
    /\ reqs[r2].kind = "group" /\ reqs[r2].data.present
    /\ reqs[r2].data.groupId = GroupId /\ reqs[r2].data.messageText = ""
    /\ \A r \in {r1, r2} :
         /\ connected[reqs[r].sock]
         /\ \E e \in EmitsOf(r, "error") : e.msg = "Invalid message data"

\* handler r has a row of its message in the store
Persisted(r) == DirectRows(r) \cup GroupRows(r) # {}

\* handler r has emitted the error event
ErrorReported(r) == Count(r, "error") > 0

\* C11: no send is ever left in a partial state: no send is persisted and,
\* not fanned out, reported to its sender as failed, and none is delivered
\* without being persisted; a group send whose member enumeration fails
\* after the insert succeeded included.
C11_NoPartialMessage ==
  \A r \in Reqs :
    /\ ~(Persisted(r) /\ ~FannedOut(r) /\ ErrorReported(r))
    /\ FannedOut(r) => Persisted(r)

\* socket s was opened with a token that is missing or not signed by the server
Refused(s) == phase[s] # "unused" /\ ~(handshake[s].present /\ handshake[s].valid)

\* the user_status_change broadcasts made so far
StatusEmits == [e \in {x \in Emits : x.ev = "user_status_change"} |-> emitted[e]]

\* A socket opened with a missing or invalid token is in no state the
\* connection handler produces: it never awaits the status write, is not
\* open, carries no user, is not in the registry, has no broadcast, no
\* handler position and no log line of its own.
C12_Refused ==
  \A s \in Socks :
    Refused(s) =>
      /\ phase[s] = "rejected"
      /\ ~connected[s] /\ sockUser[s] = None /\ disc[s] = "none"
      /\ \A u \in Users : userSockets[u] # s
      /\ \A e \in Emits : e.sock = s => e.ev = "connect_error"
      /\ \A l \in logged : l.sock # s
      /\ \A r \in Reqs : reqs[r].sock # s

\* The step that refuses a socket changes neither the registry nor the
\* broadcasts made.
C12_RefusingStep ==
  \A s \in Socks :
    phase[s] = "unused" /\ Refused(s)' =>
      userSockets' = userSockets /\ StatusEmits' = StatusEmits

\* C12: a connection attempt with a missing or an invalid token is rejected
\* before the connection handler runs: the registry is unchanged, no
\* user_status_change is emitted, no online-status write is attempted and
\* no handler is registered for the socket.
C12_RejectedBeforeHandler == []C12_Refused /\ [][C12_RefusingStep]_vars

\* A socket was refused for a token that names, without a valid signature,
\* a user who is registered on another socket.
C12_Witness ==
  \E s, t \in Socks :
    /\ s # t /\ phase[s] = "rejected" /\ handshake[s] \in BadTokens
    /\ phase[t] = "listening" /\ connected[t]
    /\ userSockets[handshake[s].userId] = t

\* how many times the online status of socket s was broadcast
OnlineCount(s) ==
  BagCardinality([e \in {x \in Emits : x.ev = "user_status_change" /\ x.sock = s
                                        /\ x.msg = "online"} |-> emitted[e]])

\* socket s was accepted by the middleware and has closed since
Closed(s) == phase[s] \in {"connecting", "listening"} /\ ~connected[s]

\* C13: when the connection of a user disconnects, the disconnect handler
\* runs for it and makes exactly one user_status_change broadcast with
\* isOnline false for it, to every client connected then, and a lookup of
\* the user after the disconnect does not return the closed connection:
\* it is absent until the user connects again.
C13_OfflineBroadcastAndAbsent ==
  \A s \in Socks :
    Closed(s) =>
      /\ disc[s] # "none"
      /\ disc[s] = "done" => OfflineCount(s) = 1
      /\ Lookup(sockUser[s]) # s

\* C14: every registry transition produces exactly one presence broadcast:
\* a socket that was registered has exactly one isOnline=true broadcast
\* once its connection handler has passed the status write, also when its
\* user was registered before; a socket that has closed has its
\* disconnect handler started, and exactly one isOnline=false broadcast
\* once that handler has passed its status write.
C14_OneBroadcastPerTransition ==
  \A s \in Socks :
    /\ OnlineCount(s) = IF phase[s] = "listening" THEN 1 ELSE 0
    /\ OfflineCount(s) = IF disc[s] = "done" THEN 1 ELSE 0
    /\ Closed(s) => disc[s] \in {"await", "done"}

\* the status writes the store rejected
FailedWrites == {l \in logged : l.req = 0}

\* A socket whose online status write failed is listening and its online
\* status was broadcast once; one whose offline status write failed has
\* its disconnect handler ended and its offline status broadcast once; no
\* error event was emitted to anyone.
C15_BroadcastDespiteFailure ==
  /\ \A l \in FailedWrites :
       /\ l.what = "online status" =>
            phase[l.sock] = "listening" /\ OnlineCount(l.sock) = 1
       /\ l.what = "offline status" =>
            disc[l.sock] = "done" /\ OfflineCount(l.sock) = 1
  /\ \A e \in Emits : e.ev # "error"

\* The step in which a status write fails leaves the registry as the
\* handler had set it before the write and closes no connection.
C15_FailingStep ==
  logged' # logged => userSockets' = userSockets /\ connected' = connected

\* C15: a failure of the online-status store write on connect or on
\* disconnect neither blocks nor fails the transition: the registry update
\* has happened and stays, the user_status_change broadcast is still
\* emitted, and no error event is sent to any client.
C15_WriteFailureTolerated ==
  []C15_BroadcastDespiteFailure /\ [][C15_FailingStep]_vars

\* Both status writes of a socket failed while another client was
\* connected: both broadcasts were made and the other client received the
\* offline one.
C15_Witness ==
  \E s, t \in Socks :
    /\ s # t /\ connected[t]
    /\ Logged(s, 0, "online status") \in logged
    /\ Logged(s, 0, "offline status") \in logged
    /\ OnlineCount(s) = 1 /\ OfflineCount(s) = 1
    /\ \E e \in Emits : e.sock = s /\ e.msg = "offline" /\ t \in e.rcpt
    /\ Lookup(sockUser[s]) # s

\* the handles to which handler r has emitted receive_group_message
GroupTargets(r) == {e.to : e \in EmitsOf(r, "receive_group_message")}

\* A group send has at most one row, and one when it has ended without
\* error; only then has it emitted.  Each of its emits was made once, to
\* the handle of a member, no two to the same user, and was received by
\* no socket but the one addressed.
C16_Recipients ==
  \A r \in GroupSends :
    /\ Cardinality(GroupRows(r)) <= 1
    /\ Succeeded(r) => Cardinality(GroupRows(r)) = 1
    /\ GroupTargets(r) # {} => Succeeded(r)
    /\ \A e \in EmitsOf(r, "receive_group_message") :
         /\ emitted[e] = 1 /\ e.to \in Socks /\ e.rcpt \subseteq {e.to}
         /\ sockUser[e.to] \in MembersOf(reqs[r].data.groupId)
    /\ \A e1, e2 \in EmitsOf(r, "receive_group_message") :
         sockUser[e1.to] = sockUser[e2.to] => e1 = e2

\* The step in which a group send fans out emits to the registered handle
\* of every member that has a registry entry in that step, and an open
\* socket so addressed receives the event.
C16_FanOutStep ==
  \A r \in Reqs :
    reqs[r].kind = "group" /\ reqs[r].pc = "members"
      /\ reqs'[r].pc = "done" /\ reqs'[r].err = "" =>
        /\ GroupTargets(r)' =
             {Lookup(u) : u \in {m \in MembersOf(reqs[r].data.groupId) :
                                   Lookup(m) # None}}
        /\ \A e \in EmitsOf(r, "receive_group_message")' :
             connected[e.to] => e.rcpt = {e.to}

\* C16: for a persisted group send the users to whom receive_group_message
\* goes are exactly the members of the group, as the store lists them for
\* this send, that have a registry entry; each of them gets it exactly
\* once, a member without a registry entry and every non-member get
\* nothing, and the message is persisted once.
C16_GroupRecipients == []C16_Recipients /\ [][C16_FanOutStep]_vars

\* A group of two members, both registered on open sockets: the send of
\* one of them reached each of the two once.
C16_Witness ==
  \E r \in GroupSends :
    /\ Succeeded(r) /\ GroupMembers = {1, 2}
    /\ Cardinality(GroupRows(r)) = 1
    /\ Count(r, "receive_group_message") = 2
    /\ {sockUser[e.to] : e \in EmitsOf(r, "receive_group_message")} = {1, 2}
    /\ \A e \in EmitsOf(r, "receive_group_message") : e.rcpt = {e.to}

\* C17: message_sent is delivered to the sender's own handle for every
\* direct send that was persisted, whether the receiver is registered or
\* not, and to no other connection: a persisted send whose handler has
\* resumed has emitted it exactly once; every message_sent belongs to a
\* persisted direct send, is addressed to the socket the send came from,
\* and is received by that socket alone, or by none if it had closed.
C17_ConfirmationToSender ==
  /\ \A r \in DirectSends :
       Persisted(r) =>
         \/ reqs[r].pc = "inserted" /\ Count(r, "message_sent") = 0
         \/ Succeeded(r) /\ Count(r, "message_sent") = 1
  /\ \A e \in Emits :
       e.ev = "message_sent" =>
         /\ e.req \in DirectSends /\ Persisted(e.req)
         /\ e.to = reqs[e.req].sock
         /\ e.rcpt = {e.to} \/ (e.rcpt = {} /\ ~connected[e.to])

\* A send to a receiver who was not registered was confirmed to the
\* sender's socket, and the other open socket got nothing.
C17_Witness ==
  \E r \in DirectSends, t \in Socks :
    /\ Succeeded(r) /\ reqs[r].receiverSocketId = None
    /\ t # reqs[r].sock /\ connected[t]
    /\ \E e \in EmitsOf(r, "message_sent") : e.rcpt = {reqs[r].sock}
    /\ \A e \in Emits : e.req = r => t \notin e.rcpt

\* C18: a direct message whose receiver was absent from the registry when
\* the handler looked it up is never delivered live later: there is no
\* queue and no retry.  Its row stays in the store and no
\* receive_direct_message of it exists in any later state, whoever
\* connects.
C18_NoLateDelivery ==
  \A r \in DirectSends :
    Succeeded(r) /\ reqs[r].receiverSocketId = None =>
      /\ Count(r, "receive_direct_message") = 0
      /\ Cardinality(DirectRows(r)) = 1

\* The receiver of such a message has connected since and is listening.
C18_Witness ==
  \E r \in DirectSends :
    /\ Succeeded(r) /\ reqs[r].receiverSocketId = None
    /\ Lookup(reqs[r].data.receiverId) # None
    /\ connected[Lookup(reqs[r].data.receiverId)]
    /\ phase[Lookup(reqs[r].data.receiverId)] = "listening"
    /\ reqs[r].sock < Lookup(reqs[r].data.receiverId)
    /\ Count(r, "receive_direct_message") = 0

\* Every receive_direct_message belongs to a direct send, is addressed to a
\* socket of the user named as its receiver, and is received by no socket
\* but the one addressed.
C19_ToReceiverOnly ==
  \A e \in Emits :
    e.ev = "receive_direct_message" =>
      /\ e.req \in DirectSends /\ e.to \in Socks
      /\ sockUser[e.to] = reqs[e.req].data.receiverId
      /\ e.rcpt \subseteq {e.to}

\* The step that emits receive_direct_message for a send addresses the
\* handle the registry holds for the receiver in that step.
C19_EmitStep ==
  \A r \in Reqs :
    Count(r, "receive_direct_message")' > Count(r, "receive_direct_message") =>
      {e.to : e \in EmitsOf(r, "receive_direct_message")'}
        = {Lookup(reqs[r].data.receiverId)}

\* C19: receive_direct_message is only ever emitted to the handle that is
\* registered for the receiverId when it is emitted; no connection of any
\* other user receives it, the sender included, who gets message_sent.
C19_OnlyRegisteredHandle == []C19_ToReceiverOnly /\ [][C19_EmitStep]_vars

\* A message went to the open socket of its receiver while the socket of
\* its sender, another user, was open too and got only the confirmation.
C19_Witness ==
  \E r \in DirectSends :
    /\ Succeeded(r)
    /\ sockUser[reqs[r].sock] # reqs[r].data.receiverId
    /\ \E e \in EmitsOf(r, "receive_direct_message") :
         e.rcpt = {e.to} /\ connected[e.to] /\ e.to # reqs[r].sock
    /\ \E e \in EmitsOf(r, "message_sent") : e.rcpt = {reqs[r].sock}

\* the typing_direct events that found no registry entry for their receiverId
TypingToAbsent == {r \in Reqs : reqs[r].kind = "typing_direct"
                                  /\ reqs[r].receiverSocketId = None}

\* A typing_direct that found no entry has ended at once, with no event
\* and no error emitted, no row written and nothing logged.
C20_NoTrace ==
  \A r \in TypingToAbsent :
    /\ reqs[r].pc = "done"
    /\ \A e \in Emits : e.req # r
    /\ \A l \in logged : l.req # r
    /\ DirectRows(r) = {} /\ GroupRows(r) = {}

\* The step that handles it changes nothing but the record of the event.
C20_Frame ==
  Len(reqs') > Len(reqs) /\ Len(reqs') \in TypingToAbsent' =>
    UNCHANGED <<phase, connected, sockUser, disc, userSockets, DirectMessages,
                GroupMessages, GroupMembers, emitted, logged, handshake>>

\* C20: a typing_direct whose receiverId has no registry entry produces no
\* error, no store call, no event to any connection and no change of the
\* registry.
C20_TypingToAbsentIsSilent == []C20_NoTrace /\ [][C20_Frame]_vars

\* A client that is still connected told a user without a registry entry
\* that it is typing, while a typing_direct to a registered user was relayed.
C20_Witness ==
  \E r \in TypingToAbsent, q \in Reqs :
    /\ reqs[r].data.receiverId \in Users /\ reqs[r].data.isTyping
    /\ connected[reqs[r].sock]
    /\ reqs[q].kind = "typing_direct"
    /\ \E e \in EmitsOf(q, "user_typing_direct") : e.rcpt = {e.to}

\* the typing_direct events that found a registry entry for their receiverId
TypingToPresent == {r \in Reqs : reqs[r].kind = "typing_direct"
                                   /\ reqs[r].receiverSocketId # None}

\* C21: sending the identical typing_direct twice in a row to a registered
\* receiver produces two identical user_typing_direct events at the
\* receiver: the relay keeps no typing state and drops no repetition.
\* Every typing_direct that found its receiver registered has exactly one
\* relay, of its own isTyping, from its own socket, to the handle found,
\* whatever events came before it.
C21_NoDeduplication ==
  \A r \in TypingToPresent :
    /\ Count(r, "user_typing_direct") = 1
    /\ \A e \in EmitsOf(r, "user_typing_direct") :
         /\ e.to = reqs[r].receiverSocketId /\ e.sock = reqs[r].sock
         /\ e.msg = IF reqs[r].data.isTyping THEN "typing" ELSE "idle"

\* A socket sent typing_direct {isTyping: true} twice in a row to a
\* receiver registered on an open socket: two relays that differ in
\* nothing but the event they answer reached that socket.
C21_Witness ==
  /\ Len(reqs) = 2 /\ {1, 2} \subseteq TypingToPresent
  /\ reqs[1].sock = reqs[2].sock /\ reqs[1].data = reqs[2].data
  /\ reqs[1].data.isTyping
  /\ \E e1 \in EmitsOf(1, "user_typing_direct"), e2 \in EmitsOf(2, "user_typing_direct") :
       /\ e1.rcpt = {e1.to} /\ [e2 EXCEPT !.req = 1] = e1

\* the typing_group events whose members query has returned
TypingGroupRelayed == {r \in Reqs : reqs[r].kind = "typing_group" /\ Succeeded(r)}

\* the handles to which handler r has emitted user_typing_group
TypingTargets(r) == {e.to : e \in EmitsOf(r, "user_typing_group")}

\* Every user_typing_group belongs to a typing_group whose members query
\* returned, was emitted once, to the handle of a member of the group who
\* is not the sending user, no two to the same user, and was received by
\* no socket but the one addressed: by no socket of the sending user.
C22_Recipients ==
  /\ \A e \in Emits : e.ev = "user_typing_group" => e.req \in TypingGroupRelayed
  /\ \A r \in TypingGroupRelayed :
       /\ \A e \in EmitsOf(r, "user_typing_group") :
            /\ emitted[e] = 1 /\ e.to \in Socks /\ e.rcpt \subseteq {e.to}
            /\ sockUser[e.to] \in MembersOf(reqs[r].data.groupId)
            /\ sockUser[e.to] # sockUser[reqs[r].sock]
            /\ \A t \in e.rcpt : sockUser[t] # sockUser[reqs[r].sock]
       /\ \A e1, e2 \in EmitsOf(r, "user_typing_group") :
            sockUser[e1.to] = sockUser[e2.to] => e1 = e2

\* The step that relays a typing_group emits to the registered handle of
\* every member other than the sending user that has a registry entry in
\* that step, and an open socket so addressed receives the event.
C22_RelayStep ==
  \A r \in Reqs :
    reqs[r].kind = "typing_group" /\ reqs[r].pc = "typing_members"
      /\ reqs'[r].pc = "done" /\ reqs'[r].err = "" =>
        /\ TypingTargets(r)' =
             {Lookup(u) : u \in {m \in MembersOf(reqs[r].data.groupId) :
                                   m # sockUser[reqs[r].sock] /\ Lookup(m) # None}}
        /\ \A e \in EmitsOf(r, "user_typing_group")' :
             connected[e.to] => e.rcpt = {e.to}

\* C22: a typing_group signal is delivered as user_typing_group to exactly
\* the group members other than the sender that have a registry entry; the
\* sending user never receives the signal, on any of their connections.
C22_TypingGroupRecipients == []C22_Recipients /\ [][C22_RelayStep]_vars

\* The typing_group of a member reached the open socket of the other
\* member while the socket it came from was open and got nothing.
C22_Witness ==
  \E r \in TypingGroupRelayed :
    /\ connected[reqs[r].sock]
    /\ sockUser[reqs[r].sock] \in GroupMembers
    /\ Lookup(sockUser[reqs[r].sock]) = reqs[r].sock
    /\ Count(r, "user_typing_group") = 1
    /\ \E e \in EmitsOf(r, "user_typing_group") : e.rcpt = {e.to}
    /\ \A e \in Emits : reqs[r].sock \notin e.rcpt \/ e.req = 0

\* the typing_group events whose members query was rejected by the store
TypingGroupFailed == {r \in Reqs : reqs[r].kind = "typing_group"
                                     /\ reqs[r].err = "typing_members"}

\* C29: when the membership query of a typing_group fails, the signal is
\* dropped silently: the handler has ended, the failure is logged, and no
\* user_typing_group, no error event and no other event of that handler
\* was emitted to anyone.
C29_DroppedSilently ==
  \A r \in TypingGroupFailed :
    /\ reqs[r].pc = "done"
    /\ Logged(reqs[r].sock, r, "typing_group") \in logged
    /\ \A e \in Emits : e.req # r

\* The query failed for the signal of a member whose socket is open,
\* while the other member of the group was registered on an open socket.
C29_Witness ==
  \E r \in TypingGroupFailed, u \in GroupMembers :
    /\ connected[reqs[r].sock] /\ sockUser[reqs[r].sock] \in GroupMembers
    /\ reqs[r].data.groupId = GroupId
    /\ u # sockUser[reqs[r].sock] /\ Lookup(u) # None /\ connected[Lookup(u)]
    /\ \A e \in Emits : e.req = 0

\* handler r ends in a failure in this step
FailsNow(r) ==
  /\ r \in DOMAIN reqs' /\ reqs'[r].err # ""
  /\ r \in DOMAIN reqs => reqs[r].err = ""

\* In the step in which a handler fails the registry is left unchanged,
\* every other connection stays as it is, open and listening if it was,
\* and every error event there is went to the connection its handler
\* belongs to and to no other.
C23_FailureConfined ==
  \A r \in DOMAIN reqs' :
    FailsNow(r) =>
      /\ userSockets' = userSockets
      /\ \A t \in Socks \ {reqs'[r].sock} :
           connected'[t] = connected[t] /\ phase'[t] = phase[t]
      /\ \A e \in Emits' :
           e.ev = "error" => e.to = reqs'[e.req].sock /\ e.rcpt \subseteq {e.to}

\* C23: every failure of a send or typing handler (validation,
\* authorization, persistence, membership lookup) is confined to the
\* originating connection: an error event is emitted to no other
\* connection, the registry is left unchanged, and the handlers of other
\* connections keep working.
C23_FailuresConfined == [][C23_FailureConfined]_vars

\* the typing events received so far
TypingEvents == {r \in Reqs : reqs[r].kind \in {"typing_direct", "typing_group"}}

\* a typing handler takes a step: its event arrives, or its query returns
TypingStep ==
  \E r \in DOMAIN reqs' :
    /\ reqs'[r].kind \in {"typing_direct", "typing_group"}
    /\ r \in DOMAIN reqs => reqs'[r] # reqs[r]

\* A step of a typing handler writes no message and leaves the registry as
\* it is; a typing event has no row, and no handle was sent its relay
\* more than once.
C30_TypingFrame ==
  /\ TypingStep =>
       /\ DirectMessages' = DirectMessages /\ GroupMessages' = GroupMessages
       /\ userSockets' = userSockets
  /\ \A r \in TypingEvents :
       /\ ~Persisted(r)
       /\ \A e \in Emits : e.req = r => emitted[e] = 1
       /\ \A e1, e2 \in Emits : e1.req = r /\ e2.req = r /\ e1.to = e2.to => e1 = e2

\* C30: typing signals are never persisted and never retried: the
\* typing_direct and typing_group handlers make no write to the message
\* store and leave the stored messages and the registry unchanged, and
\* each inbound typing event causes at most one relay per recipient.
C30_TypingLeavesNoState == [][C30_TypingFrame]_vars

\* the events that are routed to a user by its id
RoutedEvents == {"receive_direct_message", "receive_group_message",
                 "user_typing_direct", "user_typing_group"}

\* Every event routed by user id went to one handle and was received by
\* no other socket; every message_sent and every error went to the socket
\* on which the send was issued.
C24_Routing ==
  \A e \in Emits :
    /\ e.ev \in RoutedEvents => e.to \in Socks /\ e.rcpt \subseteq {e.to}
    /\ e.ev \in {"message_sent", "error"} =>
         e.to = reqs[e.req].sock /\ e.rcpt \subseteq {e.to}

\* A socket that registers takes the registry entry of its user and
\* leaves every other socket as it is, open and listening if it was; an
\* event routed by user id is addressed to the handle the registry holds
\* for that user in the step that emits it.
C24_Step ==
  /\ \A s \in Socks :
       phase[s] = "unused" /\ phase'[s] = "connecting" =>
         /\ userSockets'[sockUser'[s]] = s
         /\ \A t \in Socks \ {s} :
              connected'[t] = connected[t] /\ phase'[t] = phase[t]
  /\ \A e \in Emits' :
       e.ev \in RoutedEvents /\ (e \notin Emits \/ emitted'[e] > emitted[e]) =>
         e.to = Lookup(sockUser[e.to])

\* C24: last-registered-wins without force-close: after user U connects
\* on c1 and then on c2, lookup(U) returns c2, c1 stays connected and can
\* still send; events routed to U by user id go to c2 only, while
\* message_sent and error for sends issued on c1 go to c1.
C24_LastRegisteredWins == []C24_Routing /\ [][C24_Step]_vars

\* User U is connected on c1 and on c2 and the registry holds c2; a
\* message U sent to U on c1 was delivered on c2 alone and confirmed on c1
\* alone.
C24_Witness ==
  \E r \in DirectSends :
    /\ reqs[r].sock = 1 /\ sockUser[1] = sockUser[2] /\ Lookup(sockUser[1]) = 2
    /\ connected[1] /\ connected[2]
    /\ reqs[r].data.receiverId = sockUser[1]
    /\ \E e \in EmitsOf(r, "receive_direct_message") : e.rcpt = {2}
    /\ \E e \in EmitsOf(r, "message_sent") : e.rcpt = {1}

\* the sockets on which a send was issued and that have closed since
ClosedSenders == {s \in Socks : Closed(s) /\ \E r \in DirectSends : reqs[r].sock = s}

\* A direct send whose socket has closed is not cancelled: it is waiting
\* for the store, rejected by the store, or has its row; once its handler
\* has resumed it has its row and has emitted receive_direct_message to the
\* handle it found for the receiver.  The disconnect handler of the socket
\* has run: the entry is removed and, once the status write has returned,
\* the offline status was broadcast once.
C25_NotCancelled ==
  /\ \A r \in DirectSends :
       ~connected[reqs[r].sock] =>
         /\ reqs[r].err \in {"", "insert"}
         /\ reqs[r].pc = "inserted" => Cardinality(DirectRows(r)) = 1
         /\ Succeeded(r) =>
              /\ Cardinality(DirectRows(r)) = 1
              /\ Count(r, "receive_direct_message") =
                   IF reqs[r].receiverSocketId # None THEN 1 ELSE 0
  /\ \A s \in ClosedSenders :
       /\ disc[s] \in {"await", "done"}
       /\ Lookup(sockUser[s]) # s
       /\ OfflineCount(s) = IF disc[s] = "done" THEN 1 ELSE 0

\* No inbound event of a closed socket is dispatched, and a handler that
\* waits for the store can take its next step whether its socket is open
\* or not.
C25_Step ==
  /\ Len(reqs') > Len(reqs) => connected[reqs'[Len(reqs')].sock]
  /\ \A r \in DirectSends :
       /\ reqs[r].pc = "insert" => ENABLED InsertDirect(r)
       /\ reqs[r].pc = "inserted" => ENABLED DirectResume(r)

\* C25: a disconnect that races with an in-flight send from the same
\* connection does not cancel it: the send still persists its message and
\* still delivers receive_direct_message to a registered receiver; after
\* the disconnect no further inbound event of that connection is
\* dispatched, and the deregister plus offline broadcast still happen.
C25_DisconnectCancelsNothing == []C25_NotCancelled /\ [][C25_Step]_vars

\* The socket closed while its send waited for the INSERT: the message was
\* persisted and delivered to the receiver's open socket, the
\* confirmation found the sender's socket closed, and the offline status
\* of the sender was broadcast.
C25_Witness ==
  \E r \in DirectSends :
    /\ Succeeded(r) /\ reqs[r].sock \in ClosedSenders
    /\ Cardinality(DirectRows(r)) = 1
    /\ \E e \in EmitsOf(r, "receive_direct_message") : e.rcpt = {e.to}
    /\ \E e \in EmitsOf(r, "message_sent") : e.rcpt = {}
    /\ disc[reqs[r].sock] = "done" /\ OfflineCount(reqs[r].sock) = 1

\* the handles the registry holds
Registered == {userSockets[u] : u \in Users} \ {None}

\* the sockets that are open
Open == {t \in Socks : connected[t]}

\* the user_status_change broadcasts made in this step
NewStatusEmits ==
  {e \in Emits' : e.ev = "user_status_change"
                    /\ (e \notin Emits \/ emitted'[e] > emitted[e])}

\* C26 (as stated): each user_status_change is delivered to all currently
\* registered connections, the subject's own included, and to no
\* connection outside the registry: the recipient set of a presence
\* broadcast equals the set of handles held by the registry at broadcast
\* time.
C26_ToRegistered == [][\A e \in NewStatusEmits : e.rcpt = Registered]_vars

\* a presence broadcast is received by the sockets open when it is made
C26_Step == \A e \in NewStatusEmits : e.rcpt = Open

\* presence broadcasts are addressed to no handle and reach only sockets
\* the middleware accepted
C26_Recipients ==
  \A e \in Emits :
    e.ev = "user_status_change" =>
      /\ e.to = None
      /\ \A t \in e.rcpt : phase[t] \in {"connecting", "listening"}

\* C26 (amended): each user_status_change is delivered to every connection
\* that is open when it is emitted, whether the registry holds it or not
\* (a connection superseded by a later one of its user included), and to
\* no other; the subject's own connection is among them if it is still
\* open.
C26_ToOpenConnections == []C26_Recipients /\ [][C26_Step]_vars

\* A user connected twice: the online broadcast of the second socket
\* reached both, the first of which the registry no longer held.
C26_Witness ==
  \E e \in Emits :
    /\ e.ev = "user_status_change" /\ e.sock = 2 /\ e.msg = "online"
    /\ sockUser[1] = sockUser[2] /\ e.rcpt = {1, 2}

\* ---------------------------------------------------------------- C27
\* the userId of the token the connection presented at authentication
BoundUserId(s) == handshake[s].userId

\* the events that carry a message or a typing signal on to other clients
RelayedEvents ==
  {"receive_direct_message", "receive_group_message", "message_sent",
   "user_typing_direct", "user_typing_group"}

C27_Bound ==
  /\ \A s \in Socks : sockUser[s] # None => sockUser[s] = BoundUserId(s)
  /\ \A i \in DOMAIN DirectMessages :
       DirectMessages[i].sender_id = BoundUserId(reqs[DirectMessages[i].req].sock)
  /\ \A i \in DOMAIN GroupMessages :
       GroupMessages[i].sender_id = BoundUserId(reqs[GroupMessages[i].req].sock)
  /\ \A e \in Emits : e.ev \in RelayedEvents => e.userId = BoundUserId(e.sock)

C27_Step == \A s \in Socks : sockUser[s] # None => sockUser'[s] = sockUser[s]

\* C27: the sender_id of every persisted message, the senderId of every
\* delivered direct or group message and the userId of every relayed typing
\* signal is the userId of the token its connection authenticated with,
\* whatever senderId the payload of the event claims; and no step changes
\* the identity bound to a connection.
C27_IdentityFromSession == []C27_Bound /\ [][C27_Step]_vars

\* user 1 sent a direct message whose payload claimed user 2 as its sender:
\* the row and the message delivered to user 2 name user 1; and user 2 sent
\* a typing signal claiming user 1, which was relayed as user 2's.
C27_Witness ==
  /\ \E r \in Reqs :
       /\ reqs[r].kind = "direct" /\ reqs[r].pc = "done" /\ reqs[r].err = ""
       /\ sockUser[reqs[r].sock] = 1 /\ reqs[r].data.senderId = 2
       /\ \E i \in DOMAIN DirectMessages :
            DirectMessages[i].req = r /\ DirectMessages[i].sender_id = 1
       /\ \E e \in EmitsOf(r, "receive_direct_message") :
            e.userId = 1 /\ e.rcpt # {} /\ sockUser[e.to] = 2
  /\ \E r \in Reqs :
       /\ reqs[r].kind = "typing_direct" /\ sockUser[reqs[r].sock] = 2
       /\ reqs[r].data.senderId = 1
       /\ \E e \in EmitsOf(r, "user_typing_direct") : e.userId = 2 /\ e.rcpt # {}

\* ---------------------------------------------------------------- C28
\* the receive_group_message emits of send r addressed to a socket of its sender
ToSender(r) ==
  {e \in EmitsOf(r, "receive_group_message") : sockUser[e.to] = reqs[r].senderId}

C28_NoConfirmation ==
  \A e \in Emits : e.ev = "message_sent" => reqs[e.req].kind = "direct"

C28_FanOutStep ==
  \A r \in Reqs :
    reqs[r].kind = "group" /\ reqs[r].pc = "members"
      /\ reqs'[r].pc = "done" /\ reqs'[r].err = "" =>
        LET h == Lookup(reqs[r].senderId) IN
          /\ h = None => ToSender(r)' = {}
          /\ h # None =>
               /\ \E e \in ToSender(r)' : ToSender(r)' = {e} /\ e.to = h
                                           /\ emitted'[e] = 1
               /\ \A e \in ToSender(r)' : e.rcpt = IF connected[h] THEN {h} ELSE {}

\* C28: no message_sent is emitted for a group send; at the fan-out of a
\* group send the sender is sent receive_group_message once, to the handle
\* the registry holds for the sender's userId, when the registry holds one,
\* and not at all when it holds none.
C28_SenderIsOneOfTheMembers == []C28_NoConfirmation /\ [][C28_FanOutStep]_vars

\* a group send of user 1 from socket 1 ended when the registry held socket
\* 2 for user 1: the message went to socket 2, not to the sending socket,
\* and no confirmation was emitted.
C28_Witness ==
  \E r \in Reqs :
    /\ reqs[r].kind = "group" /\ reqs[r].pc = "done" /\ reqs[r].err = ""
    /\ reqs[r].sock = 1 /\ sockUser[1] = sockUser[2]
    /\ \A e \in Emits : e.req = r => e.ev = "receive_group_message"
    /\ \E e \in ToSender(r) : ToSender(r) = {e} /\ e.to = 2 /\ e.rcpt = {2}

\* ---------------------------------------------------------------- C31
\* the answers to event r: the message_sent and error events emitted for it
\* to the socket it arrived on
Answers(r) ==
  {e \in Emits : e.req = r /\ e.to = reqs[r].sock /\ e.ev \in {"message_sent", "error"}}

Answered(r) ==
  \E e \in Answers(r) :
    Answers(r) = {e} /\ emitted[e] = 1 /\ e.rcpt = {reqs[r].sock}

\* C31: every valid send_direct_message that arrives on an open connection
\* (the registry holds the connection from the first step of its handler
\* on) is eventually answered on it by exactly one message_sent or error,
\* unless the connection closes; the store answers every query.
C31_EventuallyAnswered ==
  \A r \in 1..MaxReqs :
    (r \in Reqs /\ reqs[r].kind = "direct")
      ~> (r \in Reqs /\ (Answered(r) \/ ~connected[reqs[r].sock]))

\* the same for the events that find their listener registered
C31_HeardIsAnswered ==
  \A r \in 1..MaxReqs :
    (r \in Reqs /\ reqs[r].kind = "direct" /\ reqs[r].pc # "dropped")
      ~> (r \in Reqs /\ (Answered(r) \/ ~connected[reqs[r].sock]))

\* ---------------------------------------------------------------- C32
\* the user_status_change broadcasts about user u
StatusOf(u) == {e \in Emits : e.ev = "user_status_change" /\ e.userId = u}

\* no connection or disconnect handler awaits its status write
Quiescent ==
  \A s \in Socks : phase[s] # "connecting" /\ disc[s] # "await"

\* C32: when no connect or disconnect is in progress, the last
\* user_status_change broadcast about each user says online exactly when
\* the registry holds an entry for the user.
C32_PresenceConverges ==
  Quiescent =>
    \A u \in Users :
      /\ StatusOf(u) = {} => Lookup(u) = None
      /\ \A e \in StatusOf(u) :
           (\A x \in StatusOf(u) : x.n <= e.n) =>
             (e.msg = "online" <=> Lookup(u) # None)

\* ---------------------------------------------------------------- C33
C33_KeysMatch ==
  \A u \in Users : Lookup(u) # None => sockUser[Lookup(u)] = u

\* a step that changes the registry is the first step of the connection
\* handler of a socket or of its disconnect handler, and leaves the entries
\* of the users other than that of the socket as they were
C33_WriteStep ==
  userSockets' # userSockets =>
    \E s \in Socks :
      /\ \/ phase[s] = "unused" /\ phase'[s] = "connecting"
         \/ disc[s] = "none" /\ disc'[s] = "await"
      /\ \A u \in Users \ {sockUser'[s]} : userSockets'[u] = userSockets[u]

\* C33: every registry entry maps its key to a socket bound to that user;
\* the registry is written only by the connection and the disconnect
\* handler, and only at the key of the user of their socket.
C33_RegistryWrites == []C33_KeysMatch /\ [][C33_WriteStep]_vars

\* both users were registered and the connection of user 1 has been closed
\* since: the entry of user 1 is gone and that of user 2 is still there,
\* while a send of user 2 has been handled.
C33_Witness ==
  /\ sockUser[1] = 1 /\ disc[1] # "none" /\ Lookup(1) = None
  /\ sockUser[2] = 2 /\ connected[2] /\ Lookup(2) = 2
  /\ \E r \in Reqs : reqs[r].sock = 2 /\ reqs[r].pc = "done"

\* ---------------------------------------------------------------- C34
\* C34: while the Dashboard is mounted and the socket is connected, the
\* user_status_change listener of the Dashboard is registered on the
\* socket, whatever chats have been selected.
C34_StatusListenerStays ==
  mounted = "mounted" /\ socketConnected => StatusListener \in listeners

\* ---------------------------------------------------------------- C35
\* C35: the values MessageInput passes to onTyping alternate, starting with
\* true: the first, third, ... call passes true, the second, fourth, ...
\* passes false.
C35_StrictAlternation ==
  \A i \in DOMAIN calls : calls[i] = (i % 2 = 1)

\* ---------------------------------------------------------------- C36
C36_AtMostOneTimer == timers <= 1

C36_TrueIsFollowed ==
  \A i \in 1..MaxCalls :
    (Len(calls) >= i /\ calls[i])
      ~> (\E j \in DOMAIN calls : j > i /\ ~calls[j])

\* C36: every onTyping(true) of MessageInput is eventually followed by an
\* onTyping(false), when a pending timeout eventually expires; and at most
\* one timeout is pending at any time.
C36_TypingStops == []C36_AtMostOneTimer /\ C36_TrueIsFollowed

\* the indicator went on and off twice, the second time by a submit that
\* cleared the pending timeout
C36_Witness ==
  /\ calls = <<TRUE, FALSE, TRUE, FALSE>>
  /\ mounted = "mounted" /\ message = "" /\ timers = 0 /\ ~refLive

\* ---------------------------------------------------------------- C37
\* C37: every row a GET /direct-messages/:userId request has marked as read
\* is one of the rows that request returned.
C37_MarkedWereReturned ==
  \A g \in Gets : gets[g].marked \subseteq gets[g].messages

====
